---- MODULE Spec2Model ----
(***************************************************************************)
(* Polynomial trend-surface analysis (geosaber/pyqgis).                    *)
(*                                                                         *)
(* Spec       the enhanced algorithm's run from the collected samples to   *)
(*            the analysis result (processAlgorithm lines 212-228 and      *)
(*            trend_surface_analysis with everything it calls).            *)
(* SpecTerms  the three design-matrix builders and polynomial evaluators   *)
(*            of the repository, applied to drawn inputs.                  *)
(* SpecCV     the enhanced algorithm's run with its cross-validation step. *)
(* SpecSeed   cross_validation called twice by a caller that seeds numpy's *)
(*            global generator.                                            *)
(* SpecGrid   the three raster generators, with cancellation.              *)
(* SpecConfidence  calculate_confidence_intervals on drawn inputs.         *)
(* SpecStatistics  calculate_statistics on drawn inputs.                   *)
(* SpecCollect  collect_data on drawn input layers, and the residual       *)
(*            points built from the layer.                                 *)
(* SpecRun    processAlgorithm from the collected samples to its return:   *)
(*            analysis, rasters, residual points.                          *)
(*                                                                         *)
(* Numbers.  Coordinates, z values, external weights and coefficient       *)
(* vectors are integers.  A real number the code derives from them is kept *)
(* exactly as a pair <<num, den>> (den > 0).  np.linalg.lstsq is a library *)
(* call: its result is a choice among candidate coefficient vectors (see   *)
(* lstsq), or a LinAlgError.                                               *)
(***************************************************************************)
EXTENDS Integers, Sequences, FiniteSets, TLC

VARIABLES
    pc,                 \* position in the run
    algo,               \* "enhanced" | "core" | "simple": whose code runs
    degree,             \* polynomial_degree
    x, y, z,            \* sample coordinates and values (np arrays)
    w,                  \* external weights; <<>> is None
    robust_regression,  \* ROBUST_REGRESSION parameter
    cross_validation,   \* CROSS_VALIDATION parameter
    design,             \* result of the design-matrix builder
    coefficients,       \* current coefficient vector
    residuals,          \* current residual vector
    model_stats,        \* model_stats dictionary
    iteration,          \* loop variable of the IRLS loop
    abs_residuals,      \* local of the IRLS pass (line 407)
    mad,                \* local of the IRLS pass (line 408), <<num, den>>
    huber_weights,      \* robust_weights as set at line 415
    robust_weights,     \* robust_weights as used at line 422
    trace,              \* bookkeeping: what the run did (see TraceInit)
    error,              \* the exception that ended the run, or NoError
    z_pred,             \* predictions A . coefficients (line 320)
    cv_results,         \* cross-validation result
    confidence_intervals,
    statistics,
    evaluated,          \* SpecTerms: evaluator results, one per sample
    cv_state,           \* locals of cross_validation (see CVIdle)
    rng,                \* state of numpy's global random generator
    canceled,           \* feedback.isCanceled()
    grid,               \* locals and outputs of the raster generation
    first_run,          \* SpecSeed: what the first of two calls returned
    new_coefficients,   \* local of the IRLS pass (line 427): the weighted refit
    source,             \* the input layer: its features, and the fields asked for
    collected,          \* locals and result of collect_data
    residual_layer      \* the residual-points output layer

vars == <<pc, algo, degree, x, y, z, w, robust_regression, cross_validation,
          design, coefficients, residuals, model_stats, iteration,
          abs_residuals, mad, huber_weights, robust_weights, trace, error,
          z_pred, cv_results, confidence_intervals, statistics, evaluated,
          cv_state, rng, canceled, grid, first_run, source, collected, residual_layer, new_coefficients>>

(***************************************************************************)
(* Bounds of the model and constants of the program.                       *)
(***************************************************************************)
MaxN == 9
OutlierSize == 9
MaxCoef == 1
TermCoord == 2
MinDegree == 1
MaxDegree == 8
MinPoints == 3
max_iter == 20
TolDen == 1000000
\* the tuning constant 1.345 = 269 / 200
HuberNum == 269
HuberDen == 200

(***************************************************************************)
(* Arithmetic helpers.                                                     *)
(***************************************************************************)
RECURSIVE Pow(_, _)
Pow(b, e) == IF e = 0 THEN 1 ELSE b * Pow(b, e - 1)

Abs(v) == IF v < 0 THEN -v ELSE v

RECURSIVE SumTo(_, _)
SumTo(f, k) == IF k = 0 THEN 0 ELSE f[k] + SumTo(f, k - 1)

\* np.dot of two vectors of equal length
Dot(u, v) == SumTo([i \in 1..Len(u) |-> u[i] * v[i]], Len(u))

\* np.max over a non-empty vector
MaxOf(s) == CHOOSE m \in {s[i] : i \in 1..Len(s)} : \A i \in 1..Len(s) : s[i] <= m

\* the k-th smallest entry of s (1-based)
Kth(s, k) ==
    CHOOSE v \in {s[i] : i \in 1..Len(s)} :
        /\ Cardinality({i \in 1..Len(s) : s[i] < v}) < k
        /\ Cardinality({i \in 1..Len(s) : s[i] <= v}) >= k

\* np.median as an exact rational: the middle entry, or the mean of the two
\* middle entries
Median(s) ==
    LET n == Len(s)
    IN  IF n % 2 = 1
        THEN <<2 * Kth(s, (n + 1) \div 2), 2>>
        ELSE <<Kth(s, n \div 2) + Kth(s, n \div 2 + 1), 2>>

\* comparisons of rationals <<num, den>>, den > 0
RatLeq(p, q) == p[1] * q[2] <= q[1] * p[2]
RatEq(p, q) == p[1] * q[2] = q[1] * p[2]
RatOfInt(v) == <<v, 1>>

(***************************************************************************)
(* Term bookkeeping.  NTerms is the column count every component computes. *)
(***************************************************************************)
NTermsOffByOne(deg) == (deg * (deg + 1)) \div 2

NTerms(deg) == ((deg + 1) * (deg + 2)) \div 2

Unassigned == <<-1, -1>>

(***************************************************************************)
(* EnhancedTrendSurfaceAlgorithm.create_design_matrix.                     *)
(* st.A is the matrix (rows of n_terms entries, np.ones at first),         *)
(* st.col_index the loop's column counter; st.terms[c] records the         *)
(* exponent pair <<a, b>> written to column c, st.writes[c] how often      *)
(* column c was assigned, st.skipped how many (d, j) pairs the guard       *)
(* 'col_index < n_terms' turned away.                                      *)
(***************************************************************************)
DesignStart(n_points, n_terms) ==
    [A |-> [i \in 1..n_points |-> [c \in 1..n_terms |-> 1]],
     shape |-> <<n_points, n_terms>>,
     col_index |-> 0,
     terms |-> [c \in 1..n_terms |-> Unassigned],
     writes |-> [c \in 1..n_terms |-> 0],
     skipped |-> 0]

\* the column assignment with the two exponents exchanged
DesignAssignSwapped(px, py, d, j, st) ==
    LET c == st.col_index + 1
    IN  [st EXCEPT
            !.A = [i \in 1..Len(px) |->
                      [st.A[i] EXCEPT ![c] = Pow(px[i], j) * Pow(py[i], d - j)]],
            !.col_index = c,
            !.terms = [st.terms EXCEPT ![c] = <<j, d - j>>],
            !.writes = [st.writes EXCEPT ![c] = @ + 1]]

DesignAssign(px, py, d, j, st) ==
    LET c == st.col_index + 1
    IN  [st EXCEPT
            !.A = [i \in 1..Len(px) |->
                      [st.A[i] EXCEPT ![c] = Pow(px[i], d - j) * Pow(py[i], j)]],
            !.col_index = c,
            !.terms = [st.terms EXCEPT ![c] = <<d - j, j>>],
            !.writes = [st.writes EXCEPT ![c] = @ + 1]]

\* the inner loop 'for j in range(d + 1)' from its j-th pass on
RECURSIVE DesignRow(_, _, _, _, _, _)
DesignRow(px, py, n_terms, d, j, st) ==
    IF j > d THEN st
    ELSE IF st.col_index < n_terms
    THEN DesignRow(px, py, n_terms, d, j + 1, DesignAssign(px, py, d, j, st))
    ELSE DesignRow(px, py, n_terms, d, j + 1, [st EXCEPT !.skipped = @ + 1])

\* the outer loop 'for d in range(degree + 1)' from its d-th pass on
RECURSIVE DesignLoop(_, _, _, _, _, _)
DesignLoop(px, py, deg, n_terms, d, st) ==
    IF d > deg THEN st
    ELSE DesignLoop(px, py, deg, n_terms, d + 1,
                    DesignRow(px, py, n_terms, d, 0, st))

create_design_matrix(px, py, deg) ==
    LET n_points == Len(px)
        n_terms == NTerms(deg)
    IN  DesignLoop(px, py, deg, n_terms, 0, DesignStart(n_points, n_terms))

(***************************************************************************)
(* TrendSurfaceAnalyzer.create_design_matrix (plugin core): the same loop  *)
(* with its own column count.                                              *)
(***************************************************************************)
core_create_design_matrix(px, py, deg) ==
    LET n_points == Len(px)
        n_terms == ((deg + 1) * (deg + 2)) \div 2
    IN  DesignLoop(px, py, deg, n_terms, 0, DesignStart(n_points, n_terms))

(***************************************************************************)
(* TrendSurfaceAlgorithm.fit_polynomial_surface (simple script): each row  *)
(* is built by appending one term per (d, j), with no column guard.        *)
(***************************************************************************)
RECURSIVE SimpleRow(_, _, _, _, _, _)
SimpleRow(xi, yi, deg, d, j, row) ==
    IF d > deg THEN row
    ELSE IF j > d THEN SimpleRow(xi, yi, deg, d + 1, 0, row)
    ELSE SimpleRow(xi, yi, deg, d, j + 1, Append(row, Pow(xi, d - j) * Pow(yi, j)))

RECURSIVE SimpleTerms(_, _, _, _)
SimpleTerms(deg, d, j, terms) ==
    IF d > deg THEN terms
    ELSE IF j > d THEN SimpleTerms(deg, d + 1, 0, terms)
    ELSE SimpleTerms(deg, d, j + 1, Append(terms, <<d - j, j>>))

simple_design_matrix(px, py, deg) ==
    LET rows == [i \in 1..Len(px) |-> SimpleRow(px[i], py[i], deg, 0, 0, <<>>)]
        terms == SimpleTerms(deg, 0, 0, <<>>)
    IN  [A |-> rows,
         shape |-> <<Len(px), Len(terms)>>,
         col_index |-> Len(terms),
         terms |-> terms,
         writes |-> [c \in 1..Len(terms) |-> 1],
         skipped |-> 0]

(***************************************************************************)
(* evaluate_polynomial of the three components.  The result carries the    *)
(* value and, as bookkeeping, used[i]: the exponent pair coefficient i     *)
(* (1-based) was multiplied with.                                          *)
(***************************************************************************)
EvalStart == [value |-> 0, idx |-> 0, used |-> <<>>]

EvalAddSwapped(px, py, coefs, d, j, st) ==
    [value |-> st.value + coefs[st.idx + 1] * Pow(px, j) * Pow(py, d - j),
     idx |-> st.idx + 1,
     used |-> Append(st.used, <<j, d - j>>)]

EvalAdd(px, py, coefs, d, j, st) ==
    [value |-> st.value + coefs[st.idx + 1] * Pow(px, d - j) * Pow(py, j),
     idx |-> st.idx + 1,
     used |-> Append(st.used, <<d - j, j>>)]

RECURSIVE EvalLoop(_, _, _, _, _, _, _)
EvalLoop(px, py, coefs, deg, d, j, st) ==
    IF d > deg THEN st
    ELSE IF j > d THEN EvalLoop(px, py, coefs, deg, d + 1, 0, st)
    ELSE EvalLoop(px, py, coefs, deg, d, j + 1,
             IF st.idx < Len(coefs) THEN EvalAdd(px, py, coefs, d, j, st) ELSE st)

evaluate_polynomial(px, py, coefs, deg) ==
    EvalLoop(px, py, coefs, deg, 0, 0, EvalStart)

core_evaluate_polynomial(px, py, coefs, deg) ==
    EvalLoop(px, py, coefs, deg, 0, 0, EvalStart)

RECURSIVE SimpleEvalLoop(_, _, _, _, _, _, _)
SimpleEvalLoop(px, py, coefs, deg, d, j, st) ==
    IF d > deg THEN st
    ELSE IF j > d THEN SimpleEvalLoop(px, py, coefs, deg, d + 1, 0, st)
    ELSE SimpleEvalLoop(px, py, coefs, deg, d, j + 1, EvalAdd(px, py, coefs, d, j, st))

simple_evaluate_polynomial(px, py, coefs, deg) ==
    SimpleEvalLoop(px, py, coefs, deg, 0, 0, EvalStart)

(***************************************************************************)
(* Values standing for Python's None and for "no exception".               *)
(***************************************************************************)
None == <<>>

NoError == [kind |-> "none", required |-> 0]

NoDesign == DesignStart(0, 0)

NoStats == [fit |-> "none", has_robust_iterations |-> FALSE, robust_iterations |-> 0]

NoCV == [present |-> FALSE, folds_completed |-> 0]

NoConfidence ==
    [rse_sq |-> <<0, 1>>, std_errors |-> "none", n_std_errors |-> 0,
     t_value |-> "none"]

NoStatistics ==
    [computed |-> FALSE, n_observations |-> 0, n_parameters |-> 0,
     r2 |-> <<0, 1>>, r2_adjusted |-> <<0, 1>>, rmse_sq |-> <<0, 1>>,
     mae |-> <<0, 1>>, aic |-> "zero", bic |-> "zero", normality_p |-> "zero",
     residual_mean |-> <<0, 1>>, residual_var |-> <<0, 1>>, has_cv |-> FALSE,
     cv_folds |-> 0]

\* trace: checks   the validation checks decided so far, in order
\*        solver   the solver calls of the run, in order
\*        passes   IRLS passes entered
\*        attempts weighted refits started inside the IRLS loop
\*        refits   weighted refits that returned inside the IRLS loop
\*        weighted whether the latest IRLS pass computed weights
\*        exit     how the IRLS loop ended
TraceInit ==
    [checks |-> <<>>, solver |-> <<>>, passes |-> 0, attempts |-> 0,
     refits |-> 0, weighted |-> FALSE, exit |-> "none"]

\* cv_state:
\*     called      cross_validation was entered
\*     indices     the shuffled np.arange(n) (values 0..n-1)
\*     fold_size   n // k
\*     fold        loop variable of the fold loop
\*     mse_scores, r2_scores   the score lists
\*     folds       bookkeeping: one record per fold the loop reached
\*     result      what cross_validation returned
CVIdle ==
    [called |-> FALSE, indices |-> <<>>, fold_size |-> 0, fold |-> 0,
     mse_scores |-> <<>>, r2_scores |-> <<>>, folds |-> <<>>,
     result |-> NoCV]

NoGrid == [generator |-> "none"]

NoRun == [run |-> FALSE, seed |-> 0]

\* no input layer read, nothing collected, no output layer built
NoSource == [features |-> <<>>, weight_field |-> FALSE]

NoCollected == [stage |-> "none"]

NoLayer == [built |-> FALSE, features |-> <<>>, registered |-> FALSE]

(***************************************************************************)
(* np.linalg.lstsq(A, z).  The possible coefficient vectors: candidates    *)
(* with integer entries; when some candidate solves A c = z exactly the    *)
(* minimum is a zero residual and only exact candidates are returned.      *)
(* Scaling rows and targets by the square roots of positive weights keeps  *)
(* the exact solutions, so the weighted calls use the same choice.  The    *)
(* call may also raise LinAlgError (see the callers).                      *)
(***************************************************************************)
Pad(v, n_terms) == [c \in 1..n_terms |-> IF c <= Len(v) THEN v[c] ELSE 0]

CoefSet(n_terms) ==
    {Pad(<<c0 + s, s, 2 * s>>, n_terms) : c0 \in 0..MaxCoef, s \in 0..1}

lstsq(Am, zv, n_terms) ==
    LET exact == {c \in CoefSet(n_terms) :
                     \A i \in 1..Len(zv) : Dot(Am[i], c) = zv[i]}
    IN  IF exact # {} THEN exact ELSE CoefSet(n_terms)

(***************************************************************************)
(* least_squares_fit, lines 381-391: residuals = z - np.dot(A, coeffs).    *)
(***************************************************************************)
ResidualsSignFlipped(Am, zv, c) == [i \in 1..Len(zv) |-> Dot(Am[i], c) - zv[i]]

Residuals(Am, zv, c) == [i \in 1..Len(zv) |-> zv[i] - Dot(Am[i], c)]

\* line 369: the weighted branch is taken
UsesWeights(wv, zv) == wv # None /\ Len(wv) = Len(zv)

\* The outcomes of least_squares_fit(A, z, w): a fit, or the exception of
\* lines 393-396 when lstsq raises.
least_squares_fit(Am, zv, wv, n_terms) ==
    {[ok |-> TRUE,
      coefficients |-> c,
      residuals |-> Residuals(Am, zv, c),
      model_stats |-> [fit |-> IF UsesWeights(wv, zv) THEN "weighted" ELSE "ordinary",
                       has_robust_iterations |-> FALSE,
                       robust_iterations |-> 0],
      error |-> NoError] : c \in lstsq(Am, zv, n_terms)}
    \cup
    {[ok |-> FALSE,
      coefficients |-> <<>>,
      residuals |-> <<>>,
      model_stats |-> NoStats,
      error |-> [kind |-> "MatrixSolvingFailed", required |-> 0]]}

(***************************************************************************)
(* robust_regression_fit: the pieces of one IRLS pass.                     *)
(***************************************************************************)
AbsResiduals(r) == [i \in 1..Len(r) |-> Abs(r[i])]

\* line 410: mad < 1e-10.  mad is a non-negative multiple of 1/2, so it is
\* below 1e-10 exactly when it is 0.
MadBelowEpsNever(m) == m[1] < 0

MadBelowEps(m) == m[1] = 0

\* line 414: k = 1.345 * mad
HuberK(m) == <<HuberNum * m[1], HuberDen * m[2]>>

\* line 415: np.where(abs_residuals <= k, 1.0, k / abs_residuals), one entry
HuberWeightHardReject(a, k) ==
    IF RatLeq(RatOfInt(a), k) THEN <<1, 1>> ELSE <<0, 1>>

HuberWeight(a, k) ==
    IF RatLeq(RatOfInt(a), k) THEN <<1, 1>> ELSE <<k[1], k[2] * a>>

HuberWeights(absr, m) == [i \in 1..Len(absr) |-> HuberWeight(absr[i], HuberK(m))]

\* lines 418-419: robust_weights * w when w is given
WithExternal(hw, wv) ==
    IF wv # None THEN [i \in 1..Len(hw) |-> <<hw[i][1] * wv[i], hw[i][2]>>] ELSE hw

\* line 432: np.max(np.abs(new_coefficients - coefficients))
CoefficientChange(new, old) == MaxOf([c \in 1..Len(new) |-> Abs(new[c] - old[c])])

\* line 433: coefficient_change < tol, tol = 1e-6
\* a convergence test that lets a change of one whole unit pass
BelowTolLoose(change) == change * TolDen < 2 * TolDen

BelowTol(change) == change * TolDen < 1

\* line 405: range(max_iter) has a pass after pass number it
HasNextPassOneMore(it) == it < max_iter

HasNextPass(it) == it + 1 < max_iter

\* line 440: the recorded count
RecordedIterationsLoopIndex(it) == it

RecordedIterations(it) == it + 1

(***************************************************************************)
(* calculate_confidence_intervals.  rse is kept as its square; std_errors  *)
(* and t_value are kept by the branch that produced them.  Whether         *)
(* np.linalg.inv(A.T @ A) raises is the argument singular.                 *)
(***************************************************************************)
SumSq(r) == SumTo([i \in 1..Len(r) |-> r[i] * r[i]], Len(r))

SumAbs(r) == SumTo([i \in 1..Len(r) |-> Abs(r[i])], Len(r))

SumOf(r) == SumTo(r, Len(r))

\* the estimator without the except clause of lines 539-541
calculate_confidence_intervals_no_fallback(coefs, resid, n_samples, singular) ==
    LET n == n_samples
        p == Len(coefs)
    IN  IF n <= p
        THEN [rse_sq |-> <<0, 1>>, std_errors |-> "zeros", n_std_errors |-> p,
              t_value |-> "zero"]
        ELSE [rse_sq |-> <<SumSq(resid), n - p>>,
              std_errors |-> IF singular THEN "raised" ELSE "sqrt_diag_cov",
              n_std_errors |-> IF singular THEN 0 ELSE p,
              t_value |-> IF singular THEN "none" ELSE "t_ppf"]

calculate_confidence_intervals_strict(coefs, resid, n_samples, singular) ==
    LET n == n_samples
        p == Len(coefs)
    IN  IF n < p
        THEN [rse_sq |-> <<0, 1>>, std_errors |-> "zeros", n_std_errors |-> p,
              t_value |-> "zero"]
        ELSE [rse_sq |-> <<SumSq(resid), n - p>>,
              std_errors |-> IF singular THEN "uniform_rse" ELSE "sqrt_diag_cov",
              n_std_errors |-> p,
              t_value |-> "t_ppf"]

calculate_confidence_intervals(coefs, resid, n_samples, singular) ==
    LET n == n_samples
        p == Len(coefs)
    IN  IF n <= p
        THEN [rse_sq |-> <<0, 1>>, std_errors |-> "zeros", n_std_errors |-> p,
              t_value |-> "zero"]
        ELSE [rse_sq |-> <<SumSq(resid), n - p>>,
              std_errors |-> IF singular THEN "uniform_rse" ELSE "sqrt_diag_cov",
              n_std_errors |-> p,
              t_value |-> "t_ppf"]

(***************************************************************************)
(* calculate_statistics.  r2, r2_adjusted, mae, residual_mean are exact    *)
(* rationals; rmse and residual_std are kept as their squares; aic, bic    *)
(* and normality_p are "zero" or the name of the expression computed.      *)
(***************************************************************************)
\* calculate_statistics with the degenerate branch taken only below p
calculate_statistics_strict(z_obs, resid, deg, cv) ==
    LET n == Len(z_obs)
        p == ((deg + 1) * (deg + 2)) \div 2
        ss_res == SumSq(resid)
        ss_tot == <<n * SumSq(z_obs) - SumOf(z_obs) * SumOf(z_obs), n>>
        r2 == IF ss_tot[1] > 0
              THEN <<ss_tot[1] - ss_res * ss_tot[2], ss_tot[1]>>
              ELSE <<0, 1>>
        r2_adj == IF n - p - 1 > 0
                  THEN <<r2[2] * (n - p - 1) - (r2[2] - r2[1]) * (n - 1),
                         r2[2] * (n - p - 1)>>
                  ELSE r2
    IN  IF n < p
        THEN [computed |-> TRUE, n_observations |-> n, n_parameters |-> p,
              r2 |-> <<0, 1>>, r2_adjusted |-> <<0, 1>>, rmse_sq |-> <<0, 1>>,
              mae |-> <<0, 1>>, aic |-> "zero", bic |-> "zero",
              normality_p |-> "zero", residual_mean |-> <<0, 1>>,
              residual_var |-> <<0, 1>>, has_cv |-> FALSE, cv_folds |-> 0]
        ELSE [computed |-> TRUE, n_observations |-> n, n_parameters |-> p,
              r2 |-> r2, r2_adjusted |-> r2_adj,
              rmse_sq |-> <<ss_res, n>>,
              mae |-> <<SumAbs(resid), n>>,
              aic |-> IF ss_res > 0 THEN "n_log_mse_plus_2p" ELSE "zero",
              bic |-> IF ss_res > 0 THEN "n_log_mse_plus_p_log_n" ELSE "zero",
              normality_p |-> "normaltest",
              residual_mean |-> <<SumOf(resid), n>>,
              residual_var |-> <<n * ss_res - SumOf(resid) * SumOf(resid), n * n>>,
              has_cv |-> cv.present,
              cv_folds |-> IF cv.present THEN cv.folds_completed ELSE 0]

calculate_statistics(z_obs, resid, deg, cv) ==
    LET n == Len(z_obs)
        p == ((deg + 1) * (deg + 2)) \div 2
        ss_res == SumSq(resid)
        \* sum((z - mean(z))^2) = (n * sum(z^2) - sum(z)^2) / n
        ss_tot == <<n * SumSq(z_obs) - SumOf(z_obs) * SumOf(z_obs), n>>
        r2 == IF ss_tot[1] > 0
              THEN <<ss_tot[1] - ss_res * ss_tot[2], ss_tot[1]>>
              ELSE <<0, 1>>
        r2_adj == IF n - p - 1 > 0
                  THEN <<r2[2] * (n - p - 1) - (r2[2] - r2[1]) * (n - 1),
                         r2[2] * (n - p - 1)>>
                  ELSE r2
    IN  IF n <= p
        THEN [computed |-> TRUE, n_observations |-> n, n_parameters |-> p,
              r2 |-> <<0, 1>>, r2_adjusted |-> <<0, 1>>, rmse_sq |-> <<0, 1>>,
              mae |-> <<0, 1>>, aic |-> "zero", bic |-> "zero",
              normality_p |-> "zero", residual_mean |-> <<0, 1>>,
              residual_var |-> <<0, 1>>, has_cv |-> FALSE, cv_folds |-> 0]
        ELSE [computed |-> TRUE, n_observations |-> n, n_parameters |-> p,
              r2 |-> r2, r2_adjusted |-> r2_adj,
              rmse_sq |-> <<ss_res, n>>,
              mae |-> <<SumAbs(resid), n>>,
              aic |-> IF ss_res > 0 THEN "n_log_mse_plus_2p" ELSE "zero",
              bic |-> IF ss_res > 0 THEN "n_log_mse_plus_p_log_n" ELSE "zero",
              normality_p |-> "normaltest",
              residual_mean |-> <<SumOf(resid), n>>,
              residual_var |-> <<n * ss_res - SumOf(resid) * SumOf(resid), n * n>>,
              has_cv |-> cv.present,
              cv_folds |-> IF cv.present THEN cv.folds_completed ELSE 0]

(***************************************************************************)
(* Inputs.  The samples are the first n points of Pool; z follows the     *)
(* plane 1 + x + 2y ("plane"), the plane with sample 1 lifted by           *)
(* OutlierSize ("outlier"), or the plane plus a small periodic error       *)
(* ("noisy").                                                              *)
(***************************************************************************)
Pool ==
    << <<0, 0>>, <<1, 0>>, <<0, 1>>, <<1, 1>>, <<2, 0>>, <<0, 2>>, <<2, 1>>,
       <<1, 2>>, <<2, 2>>, <<3, 0>>, <<0, 3>>, <<3, 1>>, <<1, 3>>, <<3, 2>>,
       <<2, 3>>, <<3, 3>> >>

PoolX(i) == Pool[i][1]

PoolY(i) == Pool[i][2]

PlaneZ(i) == 1 + PoolX(i) + 2 * PoolY(i)

ZKinds == {"plane", "outlier", "noisy"}

SampleZ(kind, i) ==
    CASE kind = "plane" -> PlaneZ(i)
      [] kind = "outlier" -> PlaneZ(i) + (IF i = 1 THEN OutlierSize ELSE 0)
      [] OTHER -> PlaneZ(i) + (i % 3)

WKinds == {"none", "given"}

SampleW(kind, n) == IF kind = "none" THEN None ELSE [i \in 1..n |-> 1 + (i % 2)]

Degrees == MinDegree..MaxDegree

(***************************************************************************)
(* Init: the state of processAlgorithm when collect_data has returned      *)
(* (line 210) n samples, n in 0..MaxN.                                     *)
(***************************************************************************)
Idle ==
    /\ design = NoDesign
    /\ coefficients = <<>>
    /\ residuals = <<>>
    /\ model_stats = NoStats
    /\ iteration = 0
    /\ abs_residuals = <<>>
    /\ mad = <<0, 1>>
    /\ huber_weights = <<>>
    /\ robust_weights = <<>>
    /\ trace = TraceInit
    /\ error = NoError
    /\ z_pred = <<>>
    /\ cv_results = NoCV
    /\ confidence_intervals = NoConfidence
    /\ statistics = NoStatistics
    /\ evaluated = <<>>
    /\ cv_state = CVIdle
    /\ grid = NoGrid

Init ==
    /\ pc = "collected"
    /\ algo = "enhanced"
    /\ degree \in Degrees
    /\ \E n \in 0..MaxN, zk \in ZKinds, wk \in WKinds :
          /\ x = [i \in 1..n |-> PoolX(i)]
          /\ y = [i \in 1..n |-> PoolY(i)]
          /\ z = [i \in 1..n |-> SampleZ(zk, i)]
          /\ w = SampleW(wk, n)
    /\ robust_regression \in BOOLEAN
    /\ cross_validation \in BOOLEAN
    /\ rng = 0
    /\ canceled = FALSE
    /\ new_coefficients = None
    /\ source = NoSource
    /\ collected = NoCollected
    /\ residual_layer = NoLayer
    /\ first_run = NoRun
    /\ Idle

(***************************************************************************)
(* processAlgorithm, lines 212-219: the point-count check.                 *)
(***************************************************************************)
TooFewPoints(n) == n < MinPoints

\* line 307: n_samples < n_features
InsufficientDataInclusive(n_samples, n_features) == n_samples <= n_features

InsufficientData(n_samples, n_features) == n_samples < n_features

\* an exception that is recorded while the run goes on with the analysis
RaiseAndGoOn(kind, required) ==
    /\ pc' = "analysis"
    /\ error' = [kind |-> kind, required |-> required]

Raise(kind, required) ==
    /\ pc' = "failed"
    /\ error' = [kind |-> kind, required |-> required]

Checked(name) == [trace EXCEPT !.checks = Append(@, name)]

CheckPoints ==
    /\ pc = "collected"
    /\ trace' = Checked("points")
    /\ IF TooFewPoints(Len(x))
       THEN Raise("InsufficientPoints", 0)
       ELSE pc' = "analysis" /\ error' = error
    /\ UNCHANGED <<cv_state, rng, canceled, grid, first_run, source, collected, residual_layer, new_coefficients, algo, degree, x, y, z, w, robust_regression, cross_validation,
                   design, coefficients, residuals, model_stats, iteration,
                   abs_residuals, mad, huber_weights, robust_weights, z_pred,
                   cv_results, confidence_intervals, statistics, evaluated>>

(***************************************************************************)
(* trend_surface_analysis, lines 301-311: build the design matrix, then    *)
(* check n_samples against n_features = A.shape[1].                        *)
(***************************************************************************)
CreateDesignMatrix ==
    /\ pc = "analysis"
    /\ design' = create_design_matrix(x, y, degree)
    /\ pc' = "check_data"
    /\ UNCHANGED <<cv_state, rng, canceled, grid, first_run, source, collected, residual_layer, new_coefficients, algo, degree, x, y, z, w, robust_regression, cross_validation,
                   coefficients, residuals, model_stats, iteration,
                   abs_residuals, mad, huber_weights, robust_weights, trace,
                   error, z_pred, cv_results, confidence_intervals, statistics,
                   evaluated>>

CheckSufficientData ==
    /\ pc = "check_data"
    /\ trace' = Checked("terms")
    /\ IF InsufficientData(design.shape[1], design.shape[2])
       THEN Raise("InsufficientData", design.shape[2])
       ELSE pc' = "fit" /\ error' = error
    /\ UNCHANGED <<cv_state, rng, canceled, grid, first_run, source, collected, residual_layer, new_coefficients, algo, degree, x, y, z, w, robust_regression, cross_validation,
                   design, coefficients, residuals, model_stats, iteration,
                   abs_residuals, mad, huber_weights, robust_weights, z_pred,
                   cv_results, confidence_intervals, statistics, evaluated>>

(***************************************************************************)
(* Lines 313-317 and 403: the call of least_squares_fit, as the model fit  *)
(* (robust_regression false) or as the initial fit of the robust solver.   *)
(***************************************************************************)
Solved(call) == [trace EXCEPT !.solver = Append(@, call)]

LeastSquaresFit ==
    /\ pc = "fit"
    /\ \E out \in least_squares_fit(design.A, z, w, design.shape[2]) :
          /\ coefficients' = out.coefficients
          /\ residuals' = out.residuals
          /\ model_stats' = out.model_stats
          /\ error' = out.error
          /\ pc' = IF ~out.ok THEN "failed"
                   ELSE IF robust_regression THEN "irls" ELSE "predict"
    /\ trace' = Solved("lstsq")
    /\ iteration' = 0
    /\ UNCHANGED <<cv_state, rng, canceled, grid, first_run, source, collected, residual_layer, new_coefficients, algo, degree, x, y, z, w, robust_regression, cross_validation,
                   design, abs_residuals, mad, huber_weights, robust_weights,
                   z_pred, cv_results, confidence_intervals, statistics,
                   evaluated>>

(***************************************************************************)
(* robust_regression_fit, lines 405-438: one pass of the IRLS loop, by the *)
(* way it ends.                                                            *)
(***************************************************************************)
PassUnchanged ==
    UNCHANGED <<cv_state, rng, canceled, grid, first_run, source, collected, residual_layer, algo, degree, x, y, z, w, robust_regression, cross_validation,
                design, model_stats, error, z_pred, cv_results,
                confidence_intervals, statistics, evaluated>>

\* lines 407-408
PassAbs == AbsResiduals(residuals)

PassMad == Median(PassAbs)

PassStart ==
    /\ pc = "irls"
    /\ abs_residuals' = PassAbs
    /\ mad' = PassMad

\* lines 414-424
PassWeights ==
    /\ huber_weights' = HuberWeights(PassAbs, PassMad)
    /\ robust_weights' = WithExternal(HuberWeights(PassAbs, PassMad), w)

\* lines 410-411: break
RobustMadStop ==
    /\ PassStart
    /\ MadBelowEps(PassMad)
    /\ pc' = "robust_return"
    /\ trace' = [trace EXCEPT !.passes = @ + 1, !.weighted = FALSE, !.exit = "mad"]
    /\ UNCHANGED <<coefficients, residuals, iteration, huber_weights, robust_weights,
                   new_coefficients>>
    /\ PassUnchanged

\* lines 426-429: lstsq raises, break
RobustRefitFails ==
    /\ PassStart
    /\ ~MadBelowEps(PassMad)
    /\ PassWeights
    /\ pc' = "robust_return"
    /\ trace' = [trace EXCEPT !.passes = @ + 1, !.attempts = @ + 1,
                              !.weighted = TRUE, !.exit = "solver",
                              !.solver = Append(@, "lstsq")]
    /\ UNCHANGED <<coefficients, residuals, iteration, new_coefficients>>
    /\ PassUnchanged

\* lines 431-435: the change is below tol, break
RobustConverged ==
    /\ PassStart
    /\ ~MadBelowEps(PassMad)
    /\ PassWeights
    /\ \E refit \in lstsq(design.A, z, design.shape[2]) :
          /\ BelowTol(CoefficientChange(refit, coefficients))
          /\ new_coefficients' = refit
    /\ pc' = "robust_return"
    /\ trace' = [trace EXCEPT !.passes = @ + 1, !.attempts = @ + 1,
                              !.refits = @ + 1, !.weighted = TRUE,
                              !.exit = "converged",
                              !.solver = Append(@, "lstsq")]
    /\ UNCHANGED <<coefficients, residuals, iteration>>
    /\ PassUnchanged

\* lines 437-438, then the next pass or the end of range(max_iter)
RobustUpdate ==
    /\ PassStart
    /\ ~MadBelowEps(PassMad)
    /\ PassWeights
    /\ \E refit \in lstsq(design.A, z, design.shape[2]) :
          /\ ~BelowTol(CoefficientChange(refit, coefficients))
          /\ new_coefficients' = refit
          /\ coefficients' = refit
          /\ residuals' = Residuals(design.A, z, refit)
    /\ IF HasNextPass(iteration)
       THEN /\ iteration' = iteration + 1
            /\ pc' = "irls"
            /\ trace' = [trace EXCEPT !.passes = @ + 1, !.attempts = @ + 1,
                                      !.refits = @ + 1, !.weighted = TRUE,
                                      !.solver = Append(@, "lstsq")]
       ELSE /\ iteration' = iteration
            /\ pc' = "robust_return"
            /\ trace' = [trace EXCEPT !.passes = @ + 1, !.attempts = @ + 1,
                                      !.refits = @ + 1, !.weighted = TRUE,
                                      !.exit = "limit",
                                      !.solver = Append(@, "lstsq")]
    /\ PassUnchanged

\* lines 440-441
RobustReturn ==
    /\ pc = "robust_return"
    /\ model_stats' = [model_stats EXCEPT
                          !.has_robust_iterations = TRUE,
                          !.robust_iterations = RecordedIterations(iteration)]
    /\ pc' = "predict"
    /\ UNCHANGED <<cv_state, rng, canceled, grid, first_run, source, collected, residual_layer, new_coefficients, algo, degree, x, y, z, w, robust_regression, cross_validation,
                   design, coefficients, residuals, iteration, abs_residuals,
                   mad, huber_weights, robust_weights, trace, error, z_pred,
                   cv_results, confidence_intervals, statistics, evaluated>>

(***************************************************************************)
(* trend_surface_analysis, lines 319-325: the predictions, and the         *)
(* cross-validation step.  Spec draws at most MaxN <= 10 samples, for      *)
(* which 'cross_validation and len(z) > 10' is false and cv_results stays  *)
(* None.                                                                   *)
(***************************************************************************)
RunsCrossValidation == cross_validation /\ Len(z) > 10

Predict ==
    /\ pc = "predict"
    /\ z_pred' = [i \in 1..Len(z) |-> Dot(design.A[i], coefficients)]
    /\ ~RunsCrossValidation
    /\ cv_results' = NoCV
    /\ pc' = "confidence"
    /\ UNCHANGED <<cv_state, rng, canceled, grid, first_run, source, collected, residual_layer, new_coefficients, algo, degree, x, y, z, w, robust_regression, cross_validation,
                   design, coefficients, residuals, model_stats, iteration,
                   abs_residuals, mad, huber_weights, robust_weights, trace,
                   error, confidence_intervals, statistics, evaluated>>

\* lines 327-330
ConfidenceIntervals ==
    /\ pc = "confidence"
    /\ \E singular \in BOOLEAN :
          confidence_intervals' =
              calculate_confidence_intervals(coefficients, residuals, Len(z), singular)
    /\ pc' = "statistics"
    /\ UNCHANGED <<cv_state, rng, canceled, grid, first_run, source, collected, residual_layer, new_coefficients, algo, degree, x, y, z, w, robust_regression, cross_validation,
                   design, coefficients, residuals, model_stats, iteration,
                   abs_residuals, mad, huber_weights, robust_weights, trace,
                   error, z_pred, cv_results, statistics, evaluated>>

\* lines 332-348: the statistics, and the result is returned
Statistics ==
    /\ pc = "statistics"
    /\ statistics' = calculate_statistics(z, residuals, degree, cv_results)
    /\ pc' = "analysed"
    /\ UNCHANGED <<cv_state, rng, canceled, grid, first_run, source, collected, residual_layer, new_coefficients, algo, degree, x, y, z, w, robust_regression, cross_validation,
                   design, coefficients, residuals, model_stats, iteration,
                   abs_residuals, mad, huber_weights, robust_weights, trace,
                   error, z_pred, cv_results, confidence_intervals, evaluated>>

Next ==
    \/ CheckPoints
    \/ CreateDesignMatrix
    \/ CheckSufficientData
    \/ LeastSquaresFit
    \/ RobustMadStop
    \/ RobustRefitFails
    \/ RobustConverged
    \/ RobustUpdate
    \/ RobustReturn
    \/ Predict
    \/ ConfidenceIntervals
    \/ Statistics

Spec == Init /\ [][Next]_vars

(***************************************************************************)
(* SpecTerms: each component's builder, then its evaluator at every        *)
(* sample point, on drawn degrees, sample points and coefficient vectors.  *)
(***************************************************************************)
Algos == {"enhanced", "core", "simple"}

\* coefficient vectors: each unit vector, and the ramp 1, 2, 3, ...
TermCoefs(n_terms) ==
    {[c \in 1..n_terms |-> IF c = k THEN 1 ELSE 0] : k \in 1..n_terms}
    \cup {[c \in 1..n_terms |-> c]}

InitTerms ==
    /\ pc = "terms"
    /\ algo \in Algos
    /\ degree \in Degrees
    /\ \E a \in -1..TermCoord, b \in -1..TermCoord :
          /\ x = <<a, b>>
          /\ y = <<b, a + 1>>
    /\ z = <<>>
    /\ w = None
    /\ robust_regression = FALSE
    /\ cross_validation = FALSE
    /\ design = NoDesign
    /\ coefficients \in TermCoefs(((degree + 1) * (degree + 2)) \div 2)
    /\ residuals = <<>>
    /\ model_stats = NoStats
    /\ iteration = 0
    /\ abs_residuals = <<>>
    /\ mad = <<0, 1>>
    /\ huber_weights = <<>>
    /\ robust_weights = <<>>
    /\ trace = TraceInit
    /\ error = NoError
    /\ z_pred = <<>>
    /\ cv_results = NoCV
    /\ confidence_intervals = NoConfidence
    /\ statistics = NoStatistics
    /\ evaluated = <<>>
    /\ cv_state = CVIdle
    /\ rng = 0
    /\ canceled = FALSE
    /\ new_coefficients = None
    /\ source = NoSource
    /\ collected = NoCollected
    /\ residual_layer = NoLayer
    /\ grid = NoGrid
    /\ first_run = NoRun

TermsUnchanged ==
    UNCHANGED <<cv_state, rng, canceled, grid, first_run, source, collected, residual_layer, new_coefficients, algo, degree, x, y, z, w, robust_regression, cross_validation,
                coefficients, residuals, model_stats, iteration, abs_residuals,
                mad, huber_weights, robust_weights, trace, error, z_pred,
                cv_results, confidence_intervals, statistics>>

Build(a, built) ==
    /\ pc = "terms"
    /\ algo = a
    /\ design' = built
    /\ pc' = "terms_built"
    /\ evaluated' = evaluated
    /\ TermsUnchanged

BuildEnhanced == Build("enhanced", create_design_matrix(x, y, degree))

BuildCore == Build("core", core_create_design_matrix(x, y, degree))

BuildSimple == Build("simple", simple_design_matrix(x, y, degree))

EvalEnhanced ==
    /\ pc = "terms_built"
    /\ algo = "enhanced"
    /\ evaluated' = [i \in 1..Len(x) |->
                        evaluate_polynomial(x[i], y[i], coefficients, degree)]
    /\ pc' = "terms_done"
    /\ design' = design
    /\ TermsUnchanged

EvalCore ==
    /\ pc = "terms_built"
    /\ algo = "core"
    /\ evaluated' = [i \in 1..Len(x) |->
                        core_evaluate_polynomial(x[i], y[i], coefficients, degree)]
    /\ pc' = "terms_done"
    /\ design' = design
    /\ TermsUnchanged

EvalSimple ==
    /\ pc = "terms_built"
    /\ algo = "simple"
    /\ evaluated' = [i \in 1..Len(x) |->
                        simple_evaluate_polynomial(x[i], y[i], coefficients, degree)]
    /\ pc' = "terms_done"
    /\ design' = design
    /\ TermsUnchanged

NextTerms ==
    \/ BuildEnhanced
    \/ BuildCore
    \/ BuildSimple
    \/ EvalEnhanced
    \/ EvalCore
    \/ EvalSimple

SpecTerms == InitTerms /\ [][NextTerms]_vars

(***************************************************************************)
(* cross_validation(x, y, z, w, degree, feedback, k=5), lines 443-506.     *)
(*                                                                         *)
(* np.random.shuffle draws from numpy's global generator: the permutation  *)
(* is a function of the generator's state, and the call advances the       *)
(* state.  The generator has RngStates states here.                        *)
(***************************************************************************)
RngStates == 3

k_folds == 5

MinCVPoints == 10

NextRng(state) == (state + 1) % RngStates

\* the shuffled np.arange(n): a rotation, reversed in the odd states
Shuffle(state, n) ==
    [i \in 1..n |-> IF state % 2 = 0
                    THEN (i - 1 + 3 * state) % n
                    ELSE (n - i + 3 * state) % n]

Min(a, b) == IF a < b THEN a ELSE b

\* v[idx], with idx a sequence of 0-based positions
Sel(v, idx) == [i \in 1..Len(idx) |-> v[idx[i] + 1]]

\* lines 462-469
SplitTrainKeepsTest(indices, fold, fold_size, n) ==
    LET test_start == fold * fold_size
        test_end == Min(test_start + fold_size, n)
    IN  [test_start |-> test_start,
         test_end |-> test_end,
         test_idx |-> SubSeq(indices, test_start + 1, test_end),
         train_idx |-> SubSeq(indices, 1, test_start + 1)
                       \o SubSeq(indices, test_end + 1, n)]

Split(indices, fold, fold_size, n) ==
    LET test_start == fold * fold_size
        test_end == Min(test_start + fold_size, n)
    IN  [test_start |-> test_start,
         test_end |-> test_end,
         test_idx |-> SubSeq(indices, test_start + 1, test_end),
         train_idx |-> SubSeq(indices, 1, test_start)
                       \o SubSeq(indices, test_end + 1, n)]

\* line 477: len(train_idx) < A_train.shape[1]
\* the fold test made against the minimum number of points instead of the
\* number of terms
TooFewTrainingForPoints(n_train, n_features) == n_train < MinPoints

TooFewTrainingInclusive(n_train, n_features) == n_train <= n_features

TooFewTraining(n_train, n_features) == n_train < n_features

\* line 481: the fold's fit.  The outcomes of least_squares_fit, with the
\* solver that produced them.
CVFitFollowsFlag(Am, zv, wv, n_terms, robust) ==
    {[ok |-> o.ok, coefficients |-> o.coefficients,
      solver |-> IF robust THEN "robust_regression_fit" ELSE "least_squares_fit",
      has_robust_iterations |-> robust] :
        o \in least_squares_fit(Am, zv, wv, n_terms)}

CVFit(Am, zv, wv, n_terms, robust) ==
    {[ok |-> o.ok, coefficients |-> o.coefficients,
      solver |-> "least_squares_fit",
      has_robust_iterations |-> o.model_stats.has_robust_iterations] :
        o \in least_squares_fit(Am, zv, wv, n_terms)}

\* sklearn's mean_squared_error and r2_score on the test fold (at least two
\* samples): exact rationals.  r2_score of a constant z_true is 1 when the
\* prediction is exact and 0 otherwise.
mean_squared_error(z_true, z_hat) ==
    <<SumSq([i \in 1..Len(z_true) |-> z_true[i] - z_hat[i]]), Len(z_true)>>

r2_score(z_true, z_hat) ==
    LET m == Len(z_true)
        ss_res == SumSq([i \in 1..m |-> z_true[i] - z_hat[i]])
        ss_tot_m == m * SumSq(z_true) - SumOf(z_true) * SumOf(z_true)
    IN  IF ss_tot_m = 0
        THEN (IF ss_res = 0 THEN <<1, 1>> ELSE <<0, 1>>)
        ELSE <<ss_tot_m - m * ss_res, ss_tot_m>>

\* lines 497-506: None, or the result dictionary.  The means and standard
\* deviations are functions of the score lists, which are kept.
CVCountsFolds(st) ==
    IF st.mse_scores = <<>>
    THEN NoCV
    ELSE [present |-> TRUE, folds_completed |-> st.fold,
          mse_scores |-> st.mse_scores, r2_scores |-> st.r2_scores]

CVResult(st) ==
    IF st.mse_scores = <<>>
    THEN NoCV
    ELSE [present |-> TRUE, folds_completed |-> Len(st.mse_scores),
          mse_scores |-> st.mse_scores, r2_scores |-> st.r2_scores]

CVUnchanged ==
    UNCHANGED <<algo, degree, x, y, z, w, robust_regression, cross_validation,
                design, coefficients, residuals, model_stats, iteration,
                abs_residuals, mad, huber_weights, robust_weights, trace,
                error, confidence_intervals, statistics, evaluated, grid,
                first_run, source, collected, residual_layer, new_coefficients>>

\* trend_surface_analysis, lines 320-325, when the call is made
CallCrossValidation ==
    /\ pc = "predict"
    /\ RunsCrossValidation
    /\ z_pred' = [i \in 1..Len(z) |-> Dot(design.A[i], coefficients)]
    /\ cv_state' = CVIdle
    /\ pc' = "cv"
    /\ UNCHANGED <<cv_results, rng, canceled>>
    /\ CVUnchanged

\* lines 445-455
CVStart ==
    /\ pc = "cv"
    /\ IF Len(z) < MinCVPoints
       THEN /\ cv_state' = [cv_state EXCEPT !.called = TRUE, !.result = NoCV]
            /\ rng' = rng
            /\ pc' = "cv_returned"
       ELSE /\ cv_state' = [cv_state EXCEPT
                               !.called = TRUE,
                               !.indices = Shuffle(rng, Len(z)),
                               !.fold_size = Len(z) \div k_folds,
                               !.fold = 0]
            /\ rng' = NextRng(rng)
            /\ pc' = "cv_fold"
    /\ UNCHANGED <<z_pred, cv_results, canceled>>
    /\ CVUnchanged

\* the caller's user cancels while the folds or the raster rows are worked
Cancel ==
    /\ pc \in {"collecting", "cv_fold", "grid_row"}
    /\ ~canceled
    /\ canceled' = TRUE
    /\ UNCHANGED <<pc, z_pred, cv_results, cv_state, rng>>
    /\ CVUnchanged

InFoldLoop == pc = "cv_fold" /\ cv_state.fold < Min(k_folds, Len(z))

FoldSplit == Split(cv_state.indices, cv_state.fold, cv_state.fold_size, Len(z))

FoldLog(outcome, solver, has_robust_iterations) ==
    [fold |-> cv_state.fold, test_idx |-> FoldSplit.test_idx,
     train_idx |-> FoldSplit.train_idx, outcome |-> outcome,
     solver |-> solver, has_robust_iterations |-> has_robust_iterations]

\* lines 458-459 and 465-466: break
CVBreak ==
    /\ InFoldLoop
    /\ canceled \/ FoldSplit.test_start >= Len(z)
    /\ cv_state' = [cv_state EXCEPT !.folds = Append(@, FoldLog("break", "none", FALSE))]
    /\ pc' = "cv_done"
    /\ UNCHANGED <<z_pred, cv_results, rng, canceled>>
    /\ CVUnchanged

\* lines 471-472 and 476-478: continue without fitting
CVFoldSkipped ==
    /\ InFoldLoop
    /\ ~canceled
    /\ FoldSplit.test_start < Len(z)
    /\ \/ Len(FoldSplit.train_idx) = 0
       \/ Len(FoldSplit.test_idx) = 0
       \/ TooFewTraining(Len(FoldSplit.train_idx), NTerms(degree))
    /\ cv_state' = [cv_state EXCEPT
                       !.fold = @ + 1,
                       !.folds = Append(@, FoldLog("skipped", "none", FALSE))]
    /\ UNCHANGED <<pc, z_pred, cv_results, rng, canceled>>
    /\ CVUnchanged

FoldFitted ==
    /\ InFoldLoop
    /\ ~canceled
    /\ FoldSplit.test_start < Len(z)
    /\ Len(FoldSplit.train_idx) # 0
    /\ Len(FoldSplit.test_idx) # 0
    /\ ~TooFewTraining(Len(FoldSplit.train_idx), NTerms(degree))

\* line 476, 480-481
FoldFits ==
    CVFit(create_design_matrix(Sel(x, FoldSplit.train_idx),
                               Sel(y, FoldSplit.train_idx), degree).A,
          Sel(z, FoldSplit.train_idx),
          IF w # None THEN Sel(w, FoldSplit.train_idx) ELSE None,
          NTerms(degree), robust_regression)

\* lines 493-495: the fit raises, the fold is left
CVFoldFails ==
    /\ FoldFitted
    /\ \E o \in FoldFits :
          /\ ~o.ok
          /\ cv_state' = [cv_state EXCEPT
                             !.fold = @ + 1,
                             !.folds = Append(@, FoldLog("failed", o.solver,
                                                         o.has_robust_iterations))]
    /\ UNCHANGED <<pc, z_pred, cv_results, rng, canceled>>
    /\ CVUnchanged

\* lines 483-492
CVFoldScored ==
    /\ FoldFitted
    /\ \E o \in FoldFits :
          /\ o.ok
          /\ LET A_test == create_design_matrix(Sel(x, FoldSplit.test_idx),
                                                Sel(y, FoldSplit.test_idx), degree).A
                 z_test == Sel(z, FoldSplit.test_idx)
                 z_pred_test == [i \in 1..Len(z_test) |-> Dot(A_test[i], o.coefficients)]
             IN  cv_state' = [cv_state EXCEPT
                                 !.fold = @ + 1,
                                 !.mse_scores = Append(@, mean_squared_error(z_test, z_pred_test)),
                                 !.r2_scores = Append(@, r2_score(z_test, z_pred_test)),
                                 !.folds = Append(@, FoldLog("scored", o.solver,
                                                             o.has_robust_iterations))]
    /\ UNCHANGED <<pc, z_pred, cv_results, rng, canceled>>
    /\ CVUnchanged

\* lines 497-506
CVReturn ==
    /\ \/ pc = "cv_done"
       \/ pc = "cv_fold" /\ cv_state.fold = Min(k_folds, Len(z))
    /\ cv_state' = [cv_state EXCEPT !.result = CVResult(cv_state)]
    /\ pc' = "cv_returned"
    /\ UNCHANGED <<z_pred, cv_results, rng, canceled>>
    /\ CVUnchanged

\* line 325: cv_results = the returned value
AssignCVResults ==
    /\ pc = "cv_returned"
    /\ cv_results' = cv_state.result
    /\ pc' = "confidence"
    /\ UNCHANGED <<z_pred, cv_state, rng, canceled>>
    /\ CVUnchanged

(***************************************************************************)
(* SpecCV: the enhanced algorithm's run on 9..MaxCVN samples, with the     *)
(* cross-validation step.  The samples follow the plane; samples with an   *)
(* outlier are drawn for the runs in which no fold is fitted.              *)
(***************************************************************************)
MaxCVN == 12

\* the run fits cross-validation folds
FitsFolds(n, deg, requested) ==
    requested /\ n > 10 /\ NTerms(deg) <= n - n \div k_folds

InitCV ==
    /\ pc = "collected"
    /\ algo = "enhanced"
    /\ degree \in Degrees
    /\ robust_regression \in BOOLEAN
    /\ cross_validation \in BOOLEAN
    /\ \E n \in (MinCVPoints - 1)..MaxCVN, zk \in {"plane", "outlier"}, wk \in WKinds :
          /\ zk = "outlier" => ~FitsFolds(n, degree, cross_validation)
          /\ x = [i \in 1..n |-> PoolX(i)]
          /\ y = [i \in 1..n |-> PoolY(i)]
          /\ z = [i \in 1..n |-> SampleZ(zk, i)]
          /\ w = SampleW(wk, n)
    /\ rng \in 0..(RngStates - 1)
    /\ canceled = FALSE
    /\ new_coefficients = None
    /\ source = NoSource
    /\ collected = NoCollected
    /\ residual_layer = NoLayer
    /\ first_run = NoRun
    /\ Idle

NextCV ==
    \/ Next
    \/ CallCrossValidation
    \/ CVStart
    \/ Cancel
    \/ CVBreak
    \/ CVFoldSkipped
    \/ CVFoldFails
    \/ CVFoldScored
    \/ CVReturn
    \/ AssignCVResults

SpecCV == InitCV /\ [][NextCV]_vars

(***************************************************************************)
(* SpecSeed: a caller that seeds numpy's global generator, makes other     *)
(* random draws, calls cross_validation on its samples, and then does the  *)
(* same again with the same seed and the same samples.  cross_validation   *)
(* takes no seed and no generator: line 451 is its only use of randomness. *)
(* In these calls nobody cancels and lstsq returns.                        *)
(***************************************************************************)
InitSeed ==
    /\ pc = "seeded"
    /\ algo = "enhanced"
    /\ degree \in Degrees
    /\ robust_regression = FALSE
    /\ cross_validation = TRUE
    /\ \E n \in (MinCVPoints - 1)..MaxCVN, wk \in WKinds :
          /\ x = [i \in 1..n |-> PoolX(i)]
          /\ y = [i \in 1..n |-> PoolY(i)]
          /\ z = [i \in 1..n |-> SampleZ("plane", i)]
          /\ w = SampleW(wk, n)
    /\ \E seed \in 0..(RngStates - 1) :
          /\ rng = seed
          /\ first_run = [run |-> FALSE, seed |-> seed]
    /\ canceled = FALSE
    /\ new_coefficients = None
    /\ source = NoSource
    /\ collected = NoCollected
    /\ residual_layer = NoLayer
    /\ Idle

\* the caller draws from the global generator
OtherDraw ==
    /\ pc = "seeded"
    /\ rng' = NextRng(rng)
    /\ UNCHANGED <<pc, z_pred, cv_results, cv_state, canceled>>
    /\ CVUnchanged

\* the caller calls cross_validation(x, y, z, w, degree, feedback)
CallDirect ==
    /\ pc = "seeded"
    /\ cv_state' = CVIdle
    /\ pc' = "cv"
    /\ UNCHANGED <<z_pred, cv_results, rng, canceled>>
    /\ CVUnchanged

\* the caller keeps what the first call did and seeds the generator again
SeedAgain ==
    /\ pc = "cv_returned"
    /\ ~first_run.run
    /\ first_run' = [run |-> TRUE, seed |-> first_run.seed,
                     indices |-> cv_state.indices,
                     folds |-> cv_state.folds,
                     result |-> cv_state.result]
    /\ rng' = first_run.seed
    /\ pc' = "seeded"
    /\ UNCHANGED <<algo, degree, x, y, z, w, robust_regression, cross_validation,
                   design, coefficients, residuals, model_stats, iteration,
                   abs_residuals, mad, huber_weights, robust_weights, trace,
                   error, confidence_intervals, statistics, evaluated, grid,
                   z_pred, cv_results, cv_state, canceled, source, collected,
                   residual_layer, new_coefficients>>

NextSeed ==
    \/ OtherDraw
    \/ CallDirect
    \/ CVStart
    \/ CVFoldSkipped
    \/ CVFoldScored
    \/ CVReturn
    \/ SeedAgain

SpecSeed == InitSeed /\ [][NextSeed]_vars

(***************************************************************************)
(* The raster generators: generate_rasters of the enhanced algorithm,      *)
(* create_trend_surface of the plugin's analyzer, and lines 152-212 of the *)
(* simple algorithm's processAlgorithm (the English and the Portuguese     *)
(* script are the same code).                                              *)
(*                                                                         *)
(* Extents, cell sizes and sample coordinates are integers.  The cell      *)
(* values drawn here are integers below 2^24, which the float32 arrays     *)
(* hold exactly.                                                           *)
(***************************************************************************)
Max(a, b) == IF a > b THEN a ELSE b

\* int(a / b) for b > 0: Python's int() truncates toward zero
TruncDiv(a, b) == IF a >= 0 THEN a \div b ELSE -((-a) \div b)

\* lines 627-628 with one column (row) too many
DimensionOverrun(lo, hi, cell_size) == Max(1, TruncDiv(hi - lo, cell_size) + 2)

\* lines 627-628
Dimension(lo, hi, cell_size) == Max(1, TruncDiv(hi - lo, cell_size) + 1)

\* core_analysis.py lines 158-159
core_Dimension(lo, hi, cell_size) == Max(1, TruncDiv(hi - lo, cell_size) + 1)

\* TrendSurfaceAlgorithm_en.py lines 161-162
simple_Dimension(lo, hi, cell_size) == TruncDiv(hi - lo, cell_size) + 1

MinOfSeq(sq) == CHOOSE m \in {sq[i] : i \in 1..Len(sq)} : \A i \in 1..Len(sq) : m <= sq[i]

\* range * 0.1; the sample ranges drawn are multiples of 10
TenPercent(range) == range \div 10

\* lines 612-624: the bounding box of the samples with a 10% buffer, or the
\* extent parameter
BufferedExtent(ext, xs, ys) ==
    IF ext.null
    THEN [xmin |-> MinOfSeq(xs) - TenPercent(MaxOf(xs) - MinOfSeq(xs)),
          xmax |-> MaxOf(xs) + TenPercent(MaxOf(xs) - MinOfSeq(xs)),
          ymin |-> MinOfSeq(ys) - TenPercent(MaxOf(ys) - MinOfSeq(ys)),
          ymax |-> MaxOf(ys) + TenPercent(MaxOf(ys) - MinOfSeq(ys))]
    ELSE [xmin |-> ext.xmin, xmax |-> ext.xmax, ymin |-> ext.ymin, ymax |-> ext.ymax]

\* TrendSurfaceAlgorithm_en.py lines 153-158: no buffer
simple_Extent(ext, xs, ys) ==
    IF ext.null
    THEN [xmin |-> MinOfSeq(xs), xmax |-> MaxOf(xs),
          ymin |-> MinOfSeq(ys), ymax |-> MaxOf(ys)]
    ELSE [xmin |-> ext.xmin, xmax |-> ext.xmax, ymin |-> ext.ymin, ymax |-> ext.ymax]

\* np.zeros((rows, cols))
Zeros(rows, cols) == [r \in 1..rows |-> [c \in 1..cols |-> 0]]

\* line 647
CellYUpward(ymax, row, cell_size) == ymax + row * cell_size

CellY(ymax, row, cell_size) == ymax - row * cell_size

\* line 649
CellX(xmin, col, cell_size) == xmin + col * cell_size

\* grid, before the generator starts: the parameters
\*     extent, cell_size, output_residuals, output_confidence
\* and from then on
\*     generator   whose code runs
\*     xmin, xmax, ymin, ymax, cell_size, cols, rows
\*     row         loop variable of the row loop
\*     trend_data, confidence_data   the arrays
\*     writes      bookkeeping: how often each cell was assigned
\*     broke       the row loop was left by break
\*     saved       the rasters written, in order
\*     completed   the generator's caller reported success and returned
GridStart(a, e, dims, params) ==
    [generator |-> a,
     xmin |-> e.xmin, xmax |-> e.xmax, ymin |-> e.ymin, ymax |-> e.ymax,
     cell_size |-> params.cell_size,
     cols |-> dims[1], rows |-> dims[2],
     row |-> 0,
     trend_data |-> Zeros(dims[2], dims[1]),
     confidence_data |-> Zeros(dims[2], dims[1]),
     writes |-> Zeros(dims[2], dims[1]),
     broke |-> FALSE,
     saved |-> <<>>,
     completed |-> FALSE,
     output_residuals |-> params.output_residuals,
     output_confidence |-> params.output_confidence]

GridKeeps ==
    UNCHANGED <<algo, degree, x, y, z, w, robust_regression, cross_validation,
                design, coefficients, residuals, model_stats, iteration,
                abs_residuals, mad, huber_weights, robust_weights, trace,
                z_pred, cv_results, confidence_intervals, statistics,
                evaluated, cv_state, rng, canceled, first_run, source, collected, new_coefficients>>

GridUnchanged == GridKeeps /\ UNCHANGED residual_layer

\* lines 611-638 (core_analysis.py 139-166): extent, dimensions, arrays
Begin(a, e, dims) ==
    /\ pc = "rasters"
    /\ algo = a
    /\ grid' = GridStart(a, e, dims, grid)
    /\ pc' = "grid_row"
    /\ error' = error
    /\ GridUnchanged

BeginRasters ==
    LET e == BufferedExtent(grid.extent, x, y)
    IN  Begin("enhanced", e, <<Dimension(e.xmin, e.xmax, grid.cell_size),
                               Dimension(e.ymin, e.ymax, grid.cell_size)>>)

BeginCoreSurface ==
    LET e == BufferedExtent(grid.extent, x, y)
    IN  Begin("core", e, <<core_Dimension(e.xmin, e.xmax, grid.cell_size),
                           core_Dimension(e.ymin, e.ymax, grid.cell_size)>>)

\* TrendSurfaceAlgorithm_en.py lines 152-190.  driver.Create and np.zeros
\* take the dimensions as computed; a dimension below 1 ends the run with
\* an exception.
BeginSimpleRaster ==
    LET e == simple_Extent(grid.extent, x, y)
        cols == simple_Dimension(e.xmin, e.xmax, grid.cell_size)
        rows == simple_Dimension(e.ymin, e.ymax, grid.cell_size)
    IN  /\ pc = "rasters"
        /\ algo = "simple"
        /\ IF cols < 1 \/ rows < 1
           THEN /\ grid' = [GridStart("simple", e, <<0, 0>>, grid) EXCEPT
                               !.cols = cols, !.rows = rows]
                /\ Raise("RasterCreateFailed", 0)
           ELSE /\ grid' = GridStart("simple", e, <<cols, rows>>, grid)
                /\ pc' = "grid_row"
                /\ error' = error
        /\ GridUnchanged

\* lines 647-652: one row of the arrays
RowOf(value_at) ==
    [grid EXCEPT
        !.trend_data[grid.row + 1] =
            [c \in 1..grid.cols |->
                value_at[CellX(grid.xmin, c - 1, grid.cell_size),
                         CellY(grid.ymax, grid.row, grid.cell_size)]],
        !.confidence_data[grid.row + 1] =
            [c \in 1..grid.cols |->
                IF grid.generator = "enhanced" THEN confidence_intervals.rse_sq[1] ELSE 0],
        !.writes[grid.row + 1] = [c \in 1..grid.cols |-> @[c] + 1],
        !.row = @ + 1]

InRowLoop(a) == pc = "grid_row" /\ algo = a /\ grid.row < grid.rows

\* lines 640-652, feedback not cancelled
RasterRow ==
    /\ InRowLoop("enhanced")
    /\ ~canceled
    /\ grid' = RowOf([px, py \in Int |-> evaluate_polynomial(px, py, coefficients, degree).value])
    /\ UNCHANGED <<pc, error>>
    /\ GridUnchanged

\* core_analysis.py lines 168-175: no cancellation check
CoreRow ==
    /\ InRowLoop("core")
    /\ grid' = RowOf([px, py \in Int |-> core_evaluate_polynomial(px, py, coefficients, degree).value])
    /\ UNCHANGED <<pc, error>>
    /\ GridUnchanged

\* TrendSurfaceAlgorithm_en.py lines 192-202
SimpleRasterRow ==
    /\ InRowLoop("simple")
    /\ ~canceled
    /\ grid' = RowOf([px, py \in Int |-> simple_evaluate_polynomial(px, py, coefficients, degree).value])
    /\ UNCHANGED <<pc, error>>
    /\ GridUnchanged

\* lines 641-642 (TrendSurfaceAlgorithm_en.py 193-194): break
RowLoopCanceled(a) ==
    /\ InRowLoop(a)
    /\ canceled
    /\ grid' = [grid EXCEPT !.broke = TRUE]
    /\ pc' = "grid_save"
    /\ error' = error
    /\ GridUnchanged

RasterCanceled == RowLoopCanceled("enhanced")

SimpleRasterCanceled == RowLoopCanceled("simple")

(***************************************************************************)
(* The input layer and the residual-points layer.  A feature of the input  *)
(* layer is [z, multipart, weight]: z is "null", "nan" or "value", weight  *)
(* is "null" or "value", and a multipart feature holds PartsPerMultipoint  *)
(* points.  The values of the fields are told apart by the feature's       *)
(* number f = 1, 2, ... in the order of getFeatures().                     *)
(***************************************************************************)
PartsPerMultipoint == 2

\* feature[z_field] and feature[weight_field] of feature f, where set
FieldZ(f) == 10 * f

FieldWeight(f) == f

\* lines 711-732: zip(source_features, residuals) pairs the k-th feature of
\* the layer with the k-th residual.  predicted is z_value - residual
\* (line 729); z_value is 0 for a null z (line 727) and NaN for a NaN z.
create_residual_points_layer(src, resid) ==
    [k \in 1..Min(Len(src.features), Len(resid)) |->
        [feature |-> k,
         z_state |-> src.features[k].z,
         z_value |-> IF src.features[k].z = "value" THEN FieldZ(k) ELSE 0,
         residual |-> resid[k]]]

\* core_analysis.py lines 230-249
core_create_residual_layer(src, resid) ==
    [k \in 1..Min(Len(src.features), Len(resid)) |->
        [feature |-> k,
         z_state |-> src.features[k].z,
         z_value |-> IF src.features[k].z = "value" THEN FieldZ(k) ELSE 0,
         residual |-> resid[k]]]

\* lines 241-243: the layer is built and added to the project
ResidualPointsAdded ==
    residual_layer' = [built |-> TRUE,
                       features |-> create_residual_points_layer(source, residuals),
                       registered |-> TRUE]

RowLoopLeft(a) ==
    /\ algo = a
    /\ \/ pc = "grid_save"
       \/ pc = "grid_row" /\ grid.row = grid.rows

Raster(name, data) == [name |-> name, data |-> data, rows_evaluated |-> grid.row]

\* lines 654-664, then processAlgorithm lines 237-252: the rasters are
\* written, the residual points are added to the project, success is
\* reported and the outputs are returned
SaveRasters ==
    /\ RowLoopLeft("enhanced")
    /\ grid' = [grid EXCEPT
                   !.saved = <<Raster("Trend Surface", grid.trend_data)>>
                             \o (IF grid.output_residuals
                                 THEN <<Raster("Residuals", Zeros(grid.rows, grid.cols))>>
                                 ELSE <<>>)
                             \o (IF grid.output_confidence
                                 THEN <<Raster("Confidence", grid.confidence_data)>>
                                 ELSE <<>>),
                   !.completed = TRUE]
    /\ ResidualPointsAdded
    /\ pc' = "completed"
    /\ error' = error
    /\ GridKeeps

\* core_analysis.py lines 177-181
CoreSave ==
    /\ RowLoopLeft("core")
    /\ grid' = [grid EXCEPT !.saved = <<Raster("Trend Surface", grid.trend_data)>>,
                            !.completed = TRUE]
    /\ pc' = "completed"
    /\ error' = error
    /\ GridUnchanged

\* TrendSurfaceAlgorithm_en.py lines 204-212
SimpleWrite ==
    /\ RowLoopLeft("simple")
    /\ grid' = [grid EXCEPT !.saved = <<Raster("Trend Surface", grid.trend_data)>>,
                            !.completed = TRUE]
    /\ pc' = "completed"
    /\ error' = error
    /\ GridUnchanged

(***************************************************************************)
(* SpecGrid: each generator started on drawn coefficients, samples,        *)
(* extents and cell sizes.  An extent is null (the generator derives it    *)
(* from the samples) or given; the given ones have xmin = ymin = 0 and     *)
(* xmax, ymax in -MaxExtent..MaxExtent, so zero-width and inverted extents *)
(* are among them.                                                         *)
(***************************************************************************)
MaxExtent == 3

GridMaxDegree == 2

CellSizes == {2, 5}

\* sample coordinates whose range is 0 or 10
GridSamples == {<<0, 10, 0>>, <<10, 10, 10>>}

GridExtents ==
    {[null |-> TRUE, xmin |-> 0, xmax |-> 0, ymin |-> 0, ymax |-> 0]}
    \cup {[null |-> FALSE, xmin |-> 0, xmax |-> a, ymin |-> 0, ymax |-> b] :
             a \in -MaxExtent..MaxExtent, b \in -MaxExtent..MaxExtent}

InitGrid ==
    /\ pc = "rasters"
    /\ algo \in Algos
    /\ degree \in MinDegree..GridMaxDegree
    /\ coefficients \in TermCoefs(((degree + 1) * (degree + 2)) \div 2)
    /\ x \in GridSamples
    /\ y \in GridSamples
    /\ z = <<>>
    /\ w = None
    /\ robust_regression = FALSE
    /\ cross_validation = FALSE
    /\ \E e \in GridExtents, c \in CellSizes, o \in BOOLEAN :
          grid = [generator |-> "none", extent |-> e, cell_size |-> c,
                  output_residuals |-> o, output_confidence |-> o]
    /\ confidence_intervals =
          [rse_sq |-> <<1, 1>>, std_errors |-> "sqrt_diag_cov",
           n_std_errors |-> Len(coefficients), t_value |-> "t_ppf"]
    /\ design = NoDesign
    /\ residuals = <<>>
    /\ model_stats = NoStats
    /\ iteration = 0
    /\ abs_residuals = <<>>
    /\ mad = <<0, 1>>
    /\ huber_weights = <<>>
    /\ robust_weights = <<>>
    /\ trace = TraceInit
    /\ error = NoError
    /\ z_pred = <<>>
    /\ cv_results = NoCV
    /\ statistics = NoStatistics
    /\ evaluated = <<>>
    /\ cv_state = CVIdle
    /\ rng = 0
    /\ canceled = FALSE
    /\ new_coefficients = None
    /\ source = NoSource
    /\ collected = NoCollected
    /\ residual_layer = NoLayer
    /\ first_run = NoRun

NextGrid ==
    \/ BeginRasters
    \/ BeginCoreSurface
    \/ BeginSimpleRaster
    \/ Cancel
    \/ RasterRow
    \/ CoreRow
    \/ SimpleRasterRow
    \/ RasterCanceled
    \/ SimpleRasterCanceled
    \/ SaveRasters
    \/ CoreSave
    \/ SimpleWrite

SpecGrid == InitGrid /\ [][NextGrid]_vars

(***************************************************************************)
(* SpecConfidence: calculate_confidence_intervals called on drawn          *)
(* coefficient vectors (of the lengths n_terms(1), n_terms(2)), residuals  *)
(* and sample counts 0..MaxConfN, so with n below, at and above p.         *)
(***************************************************************************)
MaxConfN == 8

InitConfidence ==
    /\ pc = "confidence_call"
    /\ algo = "enhanced"
    /\ degree \in MinDegree..GridMaxDegree
    /\ coefficients \in TermCoefs(((degree + 1) * (degree + 2)) \div 2)
    /\ \E n \in 0..MaxConfN, e \in 0..1 :
          /\ z = [i \in 1..n |-> 0]
          /\ residuals = [i \in 1..n |-> e * (i % 3)]
    /\ x = <<>>
    /\ y = <<>>
    /\ w = None
    /\ robust_regression = FALSE
    /\ cross_validation = FALSE
    /\ rng = 0
    /\ canceled = FALSE
    /\ new_coefficients = None
    /\ source = NoSource
    /\ collected = NoCollected
    /\ residual_layer = NoLayer
    /\ first_run = NoRun
    /\ design = NoDesign
    /\ model_stats = NoStats
    /\ iteration = 0
    /\ abs_residuals = <<>>
    /\ mad = <<0, 1>>
    /\ huber_weights = <<>>
    /\ robust_weights = <<>>
    /\ trace = TraceInit
    /\ error = NoError
    /\ z_pred = <<>>
    /\ cv_results = NoCV
    /\ confidence_intervals = NoConfidence
    /\ statistics = NoStatistics
    /\ evaluated = <<>>
    /\ cv_state = CVIdle
    /\ grid = NoGrid

\* lines 508-543
CallConfidence ==
    /\ pc = "confidence_call"
    /\ \E singular \in BOOLEAN :
          confidence_intervals' =
              calculate_confidence_intervals(coefficients, residuals, Len(z), singular)
    /\ pc' = "confidence_returned"
    /\ UNCHANGED <<cv_state, rng, canceled, grid, first_run, source, collected, residual_layer, new_coefficients, algo, degree, x, y, z, w,
                   robust_regression, cross_validation, design, coefficients,
                   residuals, model_stats, iteration, abs_residuals, mad,
                   huber_weights, robust_weights, trace, error, z_pred,
                   cv_results, statistics, evaluated>>

NextConfidence == CallConfidence

SpecConfidence == InitConfidence /\ [][NextConfidence]_vars

(***************************************************************************)
(* SpecStatistics: calculate_statistics called on its own, with any        *)
(* number of observations (below, at and above the number of terms of the  *)
(* degree), constant or varying z, zero or non-zero residuals, and with    *)
(* or without a cross-validation result.                                   *)
(***************************************************************************)
MaxStatN == 7

InitStatistics ==
    /\ pc = "statistics_call"
    /\ algo = "enhanced"
    /\ degree \in MinDegree..GridMaxDegree
    /\ coefficients = <<>>
    /\ \E n \in 0..MaxStatN, spread \in 0..1, e \in 0..2 :
          /\ z = [i \in 1..n |-> 5 + spread * i]
          /\ residuals = [i \in 1..n |-> e * ((i % 3) - 1)]
    /\ x = <<>>
    /\ y = <<>>
    /\ w = None
    /\ robust_regression = FALSE
    /\ cross_validation = FALSE
    /\ rng = 0
    /\ canceled = FALSE
    /\ new_coefficients = None
    /\ source = NoSource
    /\ collected = NoCollected
    /\ residual_layer = NoLayer
    /\ first_run = NoRun
    /\ design = NoDesign
    /\ model_stats = NoStats
    /\ iteration = 0
    /\ abs_residuals = <<>>
    /\ mad = <<0, 1>>
    /\ huber_weights = <<>>
    /\ robust_weights = <<>>
    /\ trace = TraceInit
    /\ error = NoError
    /\ z_pred = <<>>
    /\ cv_results \in {NoCV} \cup {[present |-> TRUE, folds_completed |-> k,
                                   mse_scores |-> [f \in 1..k |-> <<1, 1>>],
                                   r2_scores |-> [f \in 1..k |-> <<0, 1>>]] :
                                  k \in {1, k_folds}}
    /\ confidence_intervals = NoConfidence
    /\ statistics = NoStatistics
    /\ evaluated = <<>>
    /\ cv_state = CVIdle
    /\ grid = NoGrid

\* lines 545-605
CallStatistics ==
    /\ pc = "statistics_call"
    /\ statistics' = calculate_statistics(z, residuals, degree, cv_results)
    /\ pc' = "statistics_returned"
    /\ UNCHANGED <<cv_state, rng, canceled, grid, first_run, source, collected, residual_layer, new_coefficients, algo, degree, x, y, z, w,
                   robust_regression, cross_validation, design, coefficients,
                   residuals, model_stats, iteration, abs_residuals, mad,
                   huber_weights, robust_weights, trace, error, z_pred,
                   cv_results, confidence_intervals, evaluated>>

NextStatistics == CallStatistics

SpecStatistics == InitStatistics /\ [][NextStatistics]_vars

(***************************************************************************)
(* SpecCollect: collect_data on drawn input layers, then the conversion to *)
(* arrays and the residual-points layer.  Between the two the analysis and *)
(* the rasters are not run again: trend_surface_analysis is taken to       *)
(* return, and its residuals are parallel to the samples (residual number  *)
(* i belongs to sample number i, as least_squares_fit computes them), so   *)
(* residual i is written as the number i.  The plugin's collector          *)
(* (algo = "core") reads layers whose z is set everywhere.                 *)
(*                                                                         *)
(* collected is                                                            *)
(*     i          features visited so far                                  *)
(*     points     the samples: [feature, part], in the order appended      *)
(*     z_values   one value per appended z                                 *)
(*     weights    the weights appended: [feature, part, value]; None once  *)
(*                dropped                                                  *)
(*     warned     the warning of line 291 was pushed                       *)
(*     broke      the loop was left by break                               *)
(***************************************************************************)
MaxFeatures == 3

FeatureKinds == [z : {"null", "nan", "value"}, multipart : BOOLEAN,
                 weight : {"null", "value"}]

\* what the plugin reads: z set, no weight field
CoreFeatureKinds == [z : {"value"}, multipart : BOOLEAN, weight : {"null"}]

Layers(kinds) == UNION {[1..n -> kinds] : n \in 0..MaxFeatures}

CollectStart ==
    [i |-> 0, points |-> <<>>, z_values |-> <<>>, weights |-> <<>>,
     warned |-> FALSE, broke |-> FALSE]

\* geometry.asMultiPoint() or geometry.asPoint(): the parts of feature f
PartsOf(feature) == IF feature.multipart THEN PartsPerMultipoint ELSE 1

\* lines 276-287: the appends for feature f, one per point
AppendedPoints(f, feature) ==
    [k \in 1..PartsOf(feature) |-> [feature |-> f, part |-> k]]

AppendedZ(f, feature) == [k \in 1..PartsOf(feature) |-> FieldZ(f)]

AppendedWeights(f, feature, weight_field) ==
    IF weight_field /\ feature.weight # "null"
    THEN [k \in 1..PartsOf(feature) |->
             [feature |-> f, part |-> k, value |-> FieldWeight(f)]]
    ELSE <<>>

\* line 272
SkipsFeature(feature) == feature.z \in {"null", "nan"}

\* line 290 without the length test: never dropped
DropsWeightsNever(weight_field, weights, points) == FALSE

\* line 290
DropsWeights(weight_field, weights, points) ==
    weight_field /\ Len(weights) # Len(points)

\* line 219: np.array(weights) if weights else None
WeightArray(weights) ==
    IF weights = None THEN None ELSE [k \in 1..Len(weights) |-> weights[k].value]

InitCollect ==
    /\ pc = "collecting"
    /\ algo \in {"enhanced", "core"}
    /\ IF algo = "enhanced"
       THEN \E fs \in Layers(FeatureKinds), wf \in BOOLEAN :
               source = [features |-> fs, weight_field |-> wf]
       ELSE \E fs \in Layers(CoreFeatureKinds) :
               source = [features |-> fs, weight_field |-> FALSE]
    /\ collected = CollectStart
    /\ residual_layer = NoLayer
    /\ degree = MinDegree
    /\ x = <<>>
    /\ y = <<>>
    /\ z = <<>>
    /\ w = None
    /\ robust_regression = FALSE
    /\ cross_validation = FALSE
    /\ rng = 0
    /\ canceled = FALSE
    /\ new_coefficients = None
    /\ first_run = NoRun
    /\ design = NoDesign
    /\ coefficients = <<>>
    /\ residuals = <<>>
    /\ model_stats = NoStats
    /\ iteration = 0
    /\ abs_residuals = <<>>
    /\ mad = <<0, 1>>
    /\ huber_weights = <<>>
    /\ robust_weights = <<>>
    /\ trace = TraceInit
    /\ error = NoError
    /\ z_pred = <<>>
    /\ cv_results = NoCV
    /\ confidence_intervals = NoConfidence
    /\ statistics = NoStatistics
    /\ evaluated = <<>>
    /\ cv_state = CVIdle
    /\ grid = NoGrid

CollectKeeps ==
    UNCHANGED <<algo, degree, robust_regression, cross_validation, design,
                coefficients, model_stats, iteration, abs_residuals, mad,
                huber_weights, robust_weights, trace, z_pred, cv_results,
                confidence_intervals, statistics, evaluated, cv_state, rng,
                canceled, grid, first_run, new_coefficients, source>>

InCollectLoop(a) ==
    /\ pc = "collecting"
    /\ algo = a
    /\ ~collected.broke
    /\ collected.i < Len(source.features)

\* lines 262-287: one feature of the loop, skipped or appended
CollectFeature ==
    /\ InCollectLoop("enhanced")
    /\ ~canceled
    /\ LET f == collected.i + 1
           feature == source.features[f]
       IN  collected' =
               IF SkipsFeature(feature)
               THEN [collected EXCEPT !.i = f]
               ELSE [collected EXCEPT
                        !.i = f,
                        !.points = @ \o AppendedPoints(f, feature),
                        !.z_values = @ \o AppendedZ(f, feature),
                        !.weights = @ \o AppendedWeights(f, feature,
                                                         source.weight_field)]
    /\ UNCHANGED <<pc, x, y, z, w, residuals, residual_layer, error>>
    /\ CollectKeeps

\* lines 263-264: break
CollectCanceled ==
    /\ InCollectLoop("enhanced")
    /\ canceled
    /\ collected' = [collected EXCEPT !.broke = TRUE]
    /\ UNCHANGED <<pc, x, y, z, w, residuals, residual_layer, error>>
    /\ CollectKeeps

\* core_analysis.py lines 77-88: one feature of the loop
CoreCollectFeature ==
    /\ InCollectLoop("core")
    /\ LET f == collected.i + 1
           feature == source.features[f]
       IN  collected' = [collected EXCEPT
                            !.i = f,
                            !.points = @ \o AppendedPoints(f, feature),
                            !.z_values = @ \o AppendedZ(f, feature)]
    /\ UNCHANGED <<pc, x, y, z, w, residuals, residual_layer, error>>
    /\ CollectKeeps

CollectLoopLeft(a) ==
    /\ pc = "collecting"
    /\ algo = a
    /\ collected.broke \/ collected.i = Len(source.features)

\* lines 215-219 (core_analysis.py 39-42)
Arrays(weights) ==
    /\ x' = [k \in 1..Len(collected.points) |-> collected.points[k].feature]
    /\ y' = [k \in 1..Len(collected.points) |-> collected.points[k].part]
    /\ z' = collected.z_values
    /\ w' = WeightArray(weights)

\* lines 289-295, then processAlgorithm lines 210-219: the weights are kept
\* or dropped, the number of points is checked, the arrays are made
CollectReturn ==
    /\ CollectLoopLeft("enhanced")
    /\ LET drop == DropsWeights(source.weight_field, collected.weights,
                                collected.points)
           weights == IF drop THEN None ELSE collected.weights
       IN  /\ collected' = [collected EXCEPT !.weights = weights, !.warned = drop]
           /\ IF TooFewPoints(Len(collected.points))
              THEN /\ Raise("InsufficientPoints", 0)
                   /\ UNCHANGED <<x, y, z, w>>
              ELSE /\ pc' = "arrays"
                   /\ error' = error
                   /\ Arrays(weights)
    /\ UNCHANGED <<residuals, residual_layer>>
    /\ CollectKeeps

\* core_analysis.py line 90, then analyze lines 34-42
CoreCollectReturn ==
    /\ CollectLoopLeft("core")
    /\ IF TooFewPoints(Len(collected.points))
       THEN /\ Raise("InsufficientPoints", 0)
            /\ UNCHANGED <<x, y, z, w>>
       ELSE /\ pc' = "arrays"
            /\ error' = error
            /\ Arrays(None)
    /\ UNCHANGED <<collected, residuals, residual_layer>>
    /\ CollectKeeps

\* lines 225-228 (core_analysis.py 47-70): the analysis returns its
\* residuals, one per sample and in the order of the samples
AnalysisReturns ==
    /\ pc = "arrays"
    /\ residuals' = [k \in 1..Len(z) |-> k]
    /\ pc' = "residual_points"
    /\ UNCHANGED <<x, y, z, w, collected, residual_layer, error>>
    /\ CollectKeeps

\* lines 241-252
AddResidualPoints ==
    /\ pc = "residual_points"
    /\ algo = "enhanced"
    /\ ResidualPointsAdded
    /\ pc' = "completed"
    /\ UNCHANGED <<x, y, z, w, collected, residuals, error>>
    /\ CollectKeeps

\* core_analysis.py lines 217-254
CoreCreateResidualLayer ==
    /\ pc = "residual_points"
    /\ algo = "core"
    /\ residual_layer' = [built |-> TRUE,
                          features |-> core_create_residual_layer(source, residuals),
                          registered |-> FALSE]
    /\ pc' = "completed"
    /\ UNCHANGED <<x, y, z, w, collected, residuals, error>>
    /\ CollectKeeps

NextCollect ==
    \/ Cancel
    \/ CollectFeature
    \/ CollectCanceled
    \/ CoreCollectFeature
    \/ CollectReturn
    \/ CoreCollectReturn
    \/ AnalysisReturns
    \/ AddResidualPoints
    \/ CoreCreateResidualLayer

SpecCollect == InitCollect /\ [][NextCollect]_vars

(***************************************************************************)
(* SpecRun: processAlgorithm of the enhanced algorithm from the return of  *)
(* collect_data to its own return: the analysis with its cross-validation  *)
(* step, the rasters, the residual points.  The sample counts drawn are    *)
(* one below and at the minimum number of points, one above the minimum    *)
(* of the cross-validation, and the first number of terms above that       *)
(* minimum (n = n_terms with the cross-validation run).  The input layer   *)
(* has one single-point feature per sample; the extent is given.           *)
(***************************************************************************)
FirstTermsAboveCV ==
    CHOOSE m \in {NTerms(d) : d \in Degrees} :
        /\ m > MinCVPoints
        /\ \A d \in Degrees : NTerms(d) > MinCVPoints => m <= NTerms(d)

RunSizes == {MinPoints - 1, MinPoints, MinCVPoints + 1, FirstTermsAboveCV}

RunCellSize == CHOOSE c \in CellSizes : \A d \in CellSizes : c <= d

InitRun ==
    /\ pc = "collected"
    /\ algo = "enhanced"
    /\ degree \in Degrees
    /\ robust_regression \in BOOLEAN
    /\ cross_validation \in BOOLEAN
    /\ \E n \in RunSizes, zk \in {"plane", "outlier"}, wk \in WKinds :
          /\ zk = "outlier" => ~FitsFolds(n, degree, cross_validation)
          /\ x = [i \in 1..n |-> PoolX(i)]
          /\ y = [i \in 1..n |-> PoolY(i)]
          /\ z = [i \in 1..n |-> SampleZ(zk, i)]
          /\ w = SampleW(wk, n)
          /\ source = [features |->
                          [i \in 1..n |->
                              [z |-> "value", multipart |-> FALSE,
                               weight |-> IF wk = "none" THEN "null" ELSE "value"]],
                       weight_field |-> (wk # "none")]
    /\ grid = [generator |-> "none",
               extent |-> [null |-> FALSE, xmin |-> 0, xmax |-> MaxExtent,
                           ymin |-> 0, ymax |-> MaxExtent],
               cell_size |-> RunCellSize,
               output_residuals |-> TRUE, output_confidence |-> TRUE]
    /\ collected = NoCollected
    /\ residual_layer = NoLayer
    /\ rng = 0
    /\ canceled = FALSE
    /\ new_coefficients = None
    /\ first_run = NoRun
    /\ design = NoDesign
    /\ coefficients = <<>>
    /\ residuals = <<>>
    /\ model_stats = NoStats
    /\ iteration = 0
    /\ abs_residuals = <<>>
    /\ mad = <<0, 1>>
    /\ huber_weights = <<>>
    /\ robust_weights = <<>>
    /\ trace = TraceInit
    /\ error = NoError
    /\ z_pred = <<>>
    /\ cv_results = NoCV
    /\ confidence_intervals = NoConfidence
    /\ statistics = NoStatistics
    /\ evaluated = <<>>
    /\ cv_state = CVIdle

\* lines 225-236: the analysis has returned, generate_rasters is called
CallGenerateRasters ==
    /\ pc = "analysed"
    /\ algo = "enhanced"
    /\ pc' = "rasters"
    /\ UNCHANGED <<error, grid>>
    /\ GridUnchanged

NextRun ==
    \/ NextCV
    \/ CallGenerateRasters
    \/ BeginRasters
    \/ RasterRow
    \/ RasterCanceled
    \/ SaveRasters

SpecRun == InitRun /\ [][NextRun]_vars

(***************************************************************************)
(* Claims.                                                                 *)
(***************************************************************************)
Required(deg) == ((deg + 1) * (deg + 2)) \div 2

FitStarted == pc = "fit" \/ trace.solver # <<>>

\* C1: fewer than 3 samples end in the insufficient-points error; n >= 3 but
\* n < (degree+1)(degree+2)/2 ends in the insufficient-data error naming that
\* number; otherwise the fit proceeds.  Exactly one of the three happens, and
\* the n < 3 check is decided before the n < n_terms check.
C1_Validation ==
    LET n == Len(x)
        decidedPoints == Len(trace.checks) >= 1
        decidedTerms == Len(trace.checks) >= 2
        errA == error.kind = "InsufficientPoints"
        errB == error.kind = "InsufficientData"
    IN  /\ trace.checks \in {<<>>, <<"points">>, <<"points", "terms">>}
        /\ decidedPoints => (errA <=> n < 3)
        /\ errA => pc = "failed" /\ ~decidedTerms /\ ~FitStarted
        /\ decidedTerms => (errB <=> (n >= 3 /\ n < Required(degree)))
        /\ errB => pc = "failed" /\ error.required = Required(degree) /\ ~FitStarted
        /\ (decidedTerms /\ n >= Required(degree)) => FitStarted
        /\ FitStarted => ~errA /\ ~errB /\ decidedTerms

C1_Witness ==
    /\ error.kind = "InsufficientData"
    /\ Len(x) >= 3
    /\ error.required = 6

\* C2 (as claimed): with n exactly n_terms(degree) and a fit that reproduces
\* every sample, the analysis succeeds and the statistics report r2 = 1.
C2_ExactFitR2 ==
    (/\ pc = "analysed"
     /\ Len(z) = Required(degree)
     /\ \A i \in 1..Len(z) : residuals[i] = 0
     /\ \E i, j \in 1..Len(z) : z[i] # z[j])
    => RatEq(statistics.r2, <<1, 1>>)

\* C3: the design matrix has (d+1)(d+2)/2 columns, column 0 is x^0 y^0,
\* column number idx holds x^(t-j) y^j for the idx-th pair of the
\* enumeration t = 0..d, j = 0..t, the column guard turns no term away and
\* every column is assigned exactly once.
C3_DesignColumns ==
    pc \in {"terms_built", "terms_done"} =>
        LET n_terms == Required(degree)
        IN  /\ design.shape = <<Len(x), n_terms>>
            /\ \A i \in 1..Len(x) : Len(design.A[i]) = n_terms
            /\ design.terms[1] = <<0, 0>>
            /\ \A t \in 0..degree : \A j \in 0..t :
                  LET idx == (t * (t + 1)) \div 2 + j
                  IN  /\ design.terms[idx + 1] = <<t - j, j>>
                      /\ \A i \in 1..Len(x) :
                            design.A[i][idx + 1] = Pow(x[i], t - j) * Pow(y[i], j)
            /\ design.skipped = 0
            /\ design.col_index = n_terms
            /\ \A c \in 1..n_terms : design.writes[c] = 1

C3_Witness ==
    /\ pc = "terms_built"
    /\ algo = "core"
    /\ degree = 8
    /\ design.terms[45] = <<0, 8>>

\* C4: every evaluator multiplies coefficient idx by the monomial of design
\* matrix column idx, so the value at a sample point is that sample's row
\* times the coefficient vector.
C4_EvaluatorMatchesBuilder ==
    pc = "terms_done" =>
        \A i \in 1..Len(x) :
            /\ evaluated[i].idx = Required(degree)
            /\ \A c \in 1..Required(degree) : evaluated[i].used[c] = design.terms[c]
            /\ evaluated[i].value = Dot(design.A[i], coefficients)

C4_Witness ==
    /\ pc = "terms_done"
    /\ algo = "simple"
    /\ degree = 8
    /\ evaluated[1].value # evaluated[2].value

\* C5 (as claimed): a fit that ends in the solver's error has tried the
\* pseudo-inverse fallback first.
C5_FallbackBeforeError ==
    error.kind = "MatrixSolvingFailed" =>
        \E i \in 1..Len(trace.solver) : trace.solver[i] = "pinv"

FitReturned == pc \in {"irls", "robust_return", "predict", "confidence",
                       "statistics", "analysed"}

\* C6: whenever a fit has returned (and at every exit of the robust loop),
\* the residual vector has one entry per sample and equals the unweighted z
\* minus the unweighted A times the coefficients held with it.
C6_Residuals ==
    FitReturned =>
        /\ Len(residuals) = Len(z)
        /\ Len(coefficients) = Required(degree)
        /\ \A i \in 1..Len(z) :
              residuals[i] = z[i] - Dot(design.A[i], coefficients)

C6_Witness ==
    /\ pc = "predict"
    /\ trace.exit = "limit"
    /\ w # None
    /\ \E i \in 1..Len(z) : residuals[i] # 0

\* C7: a pass that starts with the median absolute residual below 1e-10
\* ends the loop at once, computes no weights, starts no refit, and leaves
\* the coefficients and residuals as they were; the return keeps them too.
C7_MadStop ==
    [][/\ (pc = "irls" /\ Median(AbsResiduals(residuals))[1] = 0) =>
            /\ pc' = "robust_return"
            /\ coefficients' = coefficients
            /\ residuals' = residuals
            /\ huber_weights' = huber_weights
            /\ robust_weights' = robust_weights
            /\ trace'.attempts = trace.attempts
            /\ trace'.solver = trace.solver
       /\ pc = "robust_return" =>
            /\ coefficients' = coefficients
            /\ residuals' = residuals]_vars

C7_Witness ==
    /\ pc = "robust_return"
    /\ trace.exit = "mad"
    /\ trace.refits > 0

IRLSPass == RobustMadStop \/ RobustRefitFails \/ RobustConverged \/ RobustUpdate

\* C8: the IRLS loop terminates: every pass can complete; a pass either
\* leaves the loop or is followed by the next pass number, and only when its
\* coefficient change is at least tol; pass numbers stay below max_iter, so
\* at most max_iter passes and refits are made, and the limit exit returns
\* after exactly max_iter refits.
C8_Terminates ==
    /\ [](trace.passes <= max_iter /\ trace.attempts <= max_iter)
    /\ [](trace.exit = "limit" => trace.refits = max_iter)
    /\ [](pc = "irls" =>
            /\ iteration < max_iter
            /\ trace.passes = iteration
            /\ ENABLED IRLSPass)
    /\ [][pc = "irls" =>
             \/ pc' = "robust_return"
             \/ /\ pc' = "irls"
                /\ iteration' = iteration + 1
                /\ \E c \in 1..Len(coefficients) :
                      Abs(coefficients'[c] - coefficients[c]) * TolDen >= 1]_vars

C8_Witness ==
    /\ pc = "analysed"
    /\ trace.exit = "limit"
    /\ trace.refits = max_iter

\* C9 (as claimed): the recorded robust_iterations is the number of weighted
\* refits the loop performed, and lies in 0..max_iter.
C9_RecordsRefits ==
    model_stats.has_robust_iterations =>
        /\ model_stats.robust_iterations = trace.refits
        /\ model_stats.robust_iterations \in 0..max_iter

\* C9 (amended): the recorded robust_iterations is the number of IRLS passes
\* entered, in 1..max_iter; it equals the number of refits performed on the
\* convergence and iteration-limit exits and is one more on the MAD stop
\* and on a failed refit.
C9_RecordsPasses ==
    model_stats.has_robust_iterations =>
        /\ model_stats.robust_iterations = trace.passes
        /\ model_stats.robust_iterations \in 1..max_iter
        /\ trace.exit \in {"converged", "limit"} =>
              model_stats.robust_iterations = trace.refits
        /\ trace.exit \in {"mad", "solver"} =>
              model_stats.robust_iterations = trace.refits + 1

C9_Witness ==
    /\ model_stats.has_robust_iterations
    /\ trace.exit = "mad"
    /\ trace.refits = 0
    /\ model_stats.robust_iterations = 1

\* C10: in a pass that computes weights k = 1.345 * MAD > 0; a sample's
\* robust weight is 1 when |residual| <= k and k / |residual| otherwise, so it
\* lies in (0, 1], never is 0 and does not grow with |residual|; the weight
\* used for the refit is its product with the external weight, if any.
C10_HuberWeights ==
    trace.weighted =>
        LET k == <<269 * mad[1], 200 * mad[2]>>
            n == Len(z)
        IN  /\ k[1] > 0
            /\ Len(huber_weights) = n
            /\ Len(robust_weights) = n
            /\ \A i \in 1..n :
                  LET a == abs_residuals[i]
                      h == huber_weights[i]
                  IN  /\ h[2] > 0
                      /\ a * k[2] <= k[1] => h[1] = h[2]
                      /\ a * k[2] > k[1] => h[1] * a * k[2] = k[1] * h[2]
                      /\ h[1] > 0
                      /\ h[1] <= h[2]
                      /\ \A j \in 1..n :
                            a <= abs_residuals[j] =>
                                huber_weights[j][1] * h[2] <= h[1] * huber_weights[j][2]
                      /\ robust_weights[i][2] > 0
                      /\ IF w = None
                         THEN robust_weights[i][1] * h[2] = h[1] * robust_weights[i][2]
                         ELSE robust_weights[i][1] * h[2]
                                 = h[1] * w[i] * robust_weights[i][2]

C10_Witness ==
    /\ trace.weighted
    /\ w # None
    /\ \E i \in 1..Len(z) : huber_weights[i][1] < huber_weights[i][2]
    /\ \E i \in 1..Len(z) : huber_weights[i][1] = huber_weights[i][2]

(***************************************************************************)
(* Claims on the cross-validation.                                         *)
(***************************************************************************)
AfterCVStep == pc \in {"confidence", "statistics", "analysed"}

FoldsReached == {i \in 1..Len(cv_state.folds) : cv_state.folds[i].outcome # "break"}

ScoredFolds == {i \in 1..Len(cv_state.folds) : cv_state.folds[i].outcome = "scored"}

FailedFolds == {i \in 1..Len(cv_state.folds) : cv_state.folds[i].outcome = "failed"}

SetOf(sq) == {sq[i] : i \in 1..Len(sq)}

\* C11: when cross-validation is requested and n >= 10 (n = 10 included)
\* the k-fold evaluation is run; when n < 10 the cross-validation result is
\* none and the main fit still completes without error.
C11_CVRequiresTen ==
    AfterCVStep =>
        /\ cross_validation /\ Len(z) >= MinCVPoints =>
              cv_state.called /\ cv_state.indices # <<>>
        /\ Len(z) < MinCVPoints => ~cv_results.present /\ error = NoError

C13_FoldSkip ==
    /\ \A i \in FoldsReached :
          LET r == cv_state.folds[i]
          IN  /\ Len(r.train_idx) < NTerms(degree) =>
                    r.outcome = "skipped" /\ r.solver = "none"
              /\ Len(r.train_idx) >= NTerms(degree) =>
                    r.outcome \in {"scored", "failed"} /\ r.solver # "none"
    /\ Len(cv_state.mse_scores) = Cardinality(ScoredFolds)
    /\ Len(cv_state.r2_scores) = Cardinality(ScoredFolds)

C13_Witness ==
    /\ pc = "cv_fold"
    /\ \E i \in ScoredFolds : Len(cv_state.folds[i].train_idx) = NTerms(degree)
    /\ Len(cv_state.mse_scores) = 1

\* C14: every fold is fitted by least_squares_fit and never by the robust
\* solver, whatever ROBUST_REGRESSION is; the flag decides the primary fit
\* only.
C14_FoldsPlainLeastSquares ==
    /\ \A i \in 1..Len(cv_state.folds) :
          LET r == cv_state.folds[i]
          IN  /\ r.solver \in {"none", "least_squares_fit"}
              /\ ~r.has_robust_iterations
              /\ r.outcome \in {"scored", "failed"} => r.solver = "least_squares_fit"
    /\ pc \in {"cv", "cv_fold", "cv_done", "cv_returned"} \/ AfterCVStep =>
          /\ model_stats.has_robust_iterations = robust_regression
          /\ robust_regression => trace.passes >= 1
          /\ ~robust_regression => trace.passes = 0

C14_Witness ==
    /\ pc = "analysed"
    /\ robust_regression
    /\ model_stats.has_robust_iterations
    /\ Cardinality(ScoredFolds) = k_folds

\* C15: a fold whose fit raises is left and the later folds are still
\* worked; the two score lists have equal length; a returned result has
\* folds_completed = number of scored folds, in 1..k; when no fold is scored
\* the result is none and the analysis still returns its fit.
C15_FoldFailures ==
    /\ Len(cv_state.mse_scores) = Len(cv_state.r2_scores)
    /\ Len(cv_state.mse_scores) = Cardinality(ScoredFolds)
    /\ pc = "cv_returned" /\ ~canceled /\ Len(z) >= MinCVPoints =>
          Len(cv_state.folds) = k_folds
    /\ pc = "cv_returned" \/ AfterCVStep =>
          LET res == IF pc = "cv_returned" THEN cv_state.result ELSE cv_results
          IN  /\ cv_state.called =>
                    (res.present <=> cv_state.mse_scores # <<>>)
              /\ res.present =>
                    /\ res.folds_completed = Cardinality(ScoredFolds)
                    /\ res.folds_completed > 0
                    /\ res.folds_completed <= k_folds
                    /\ Len(res.mse_scores) = res.folds_completed
                    /\ Len(res.r2_scores) = res.folds_completed
    /\ AfterCVStep => error = NoError /\ coefficients # <<>>
    /\ pc = "analysed" =>
          /\ statistics.computed
          /\ statistics.has_cv => cv_results.present
          /\ statistics.has_cv => statistics.cv_folds = Cardinality(ScoredFolds)

C15_Witness ==
    /\ pc = "analysed"
    /\ ~canceled
    /\ Len(cv_state.folds) = k_folds
    /\ cv_state.folds[1].outcome = "failed"
    /\ cv_state.folds[k_folds].outcome = "scored"
    /\ cv_results.present
    /\ cv_results.folds_completed = k_folds - 1

\* C16: two calls on the same samples, degree and k with the same seed give
\* the same fold assignment and the same scores, whatever other random
\* draws were made before each call.
C16_SeedDeterminism ==
    pc = "cv_returned" /\ first_run.run =>
        /\ cv_state.indices = first_run.indices
        /\ cv_state.folds = first_run.folds
        /\ cv_state.result = first_run.result

(***************************************************************************)
(* Claims on the raster generators.                                        *)
(***************************************************************************)
GridStarted == grid.generator # "none"

\* the polynomial's value at a point, by the design-matrix row of the point
ValueAt(px, py) == Dot(create_design_matrix(<<px>>, <<py>>, degree).A[1], coefficients)

\* C17: for every extent and every cell size > 0, in every generator,
\* cols = max(1, floor((xmax - xmin) / cellSize) + 1) and
\* rows = max(1, floor((ymax - ymin) / cellSize) + 1), so both are >= 1,
\* also for a zero-width or an inverted extent.
C17_GridDimensions ==
    GridStarted =>
        /\ grid.cols = Max(1, ((grid.xmax - grid.xmin) \div grid.cell_size) + 1)
        /\ grid.rows = Max(1, ((grid.ymax - grid.ymin) \div grid.cell_size) + 1)
        /\ grid.cols >= 1
        /\ grid.rows >= 1

\* C18: in an uncancelled grid evaluation every cell (row, col) of the
\* rows x cols array is written exactly once, with the polynomial's value
\* at x = xmin + col * cellSize, y = ymax - row * cellSize (row 0 at the
\* maximum-y edge); rows not yet visited are unwritten.
C18_CellsWrittenOnce ==
    (GridStarted /\ pc \in {"grid_row", "grid_save", "completed"}) =>
        /\ Len(grid.trend_data) = grid.rows
        /\ \A r \in 1..grid.rows :
              /\ Len(grid.trend_data[r]) = grid.cols
              /\ \A c \in 1..grid.cols :
                    IF r <= grid.row
                    THEN /\ grid.writes[r][c] = 1
                         /\ grid.trend_data[r][c] =
                               ValueAt(grid.xmin + (c - 1) * grid.cell_size,
                                       grid.ymax - (r - 1) * grid.cell_size)
                    ELSE grid.writes[r][c] = 0
        /\ (grid.completed /\ ~grid.broke) => grid.row = grid.rows

C18_Witness ==
    /\ GridStarted
    /\ grid.completed
    /\ ~grid.broke
    /\ grid.rows >= 2
    /\ grid.cols >= 2
    /\ degree = GridMaxDegree
    /\ grid.trend_data[1] # grid.trend_data[2]
    /\ grid.trend_data[1][1] # grid.trend_data[1][2]

\* C19: when cancellation is observed at a row boundary, no grid with
\* unevaluated rows is written as an output raster or returned, and the
\* run is not reported as completed.
C19_NoPartialGrid ==
    GridStarted =>
        /\ \A i \in 1..Len(grid.saved) :
              grid.saved[i].name # "Residuals" =>
                  grid.saved[i].rows_evaluated = grid.rows
        /\ grid.broke => ~grid.completed

(***************************************************************************)
(* Claims on the confidence estimator.                                     *)
(***************************************************************************)
\* C20: with n <= p (p = number of coefficients) the estimator returns
\* rse = 0, a std_errors vector of p zeros and t_value = 0, and does not
\* divide by n - p; with n > p the divisor n - p is positive and std_errors
\* has exactly p entries.
C20_ConfidenceDegenerate ==
    pc = "confidence_returned" =>
        LET n == Len(z)
            p == Len(coefficients)
            ci == confidence_intervals
        IN  /\ ci.rse_sq[2] > 0
            /\ ci.n_std_errors = p
            /\ n <= p => /\ ci.rse_sq = <<0, 1>>
                         /\ ci.std_errors = "zeros"
                         /\ ci.t_value = "zero"
            /\ n > p => /\ ci.rse_sq = <<SumSq(residuals), n - p>>
                        /\ n - p > 0
                        /\ ci.std_errors \in {"sqrt_diag_cov", "uniform_rse"}
                        /\ ci.t_value = "t_ppf"

C20_Witness ==
    /\ pc = "confidence_returned"
    /\ Len(z) = Len(coefficients)
    /\ SumSq(residuals) > 0
    /\ confidence_intervals.std_errors = "zeros"
    /\ confidence_intervals.n_std_errors = Len(coefficients)

(***************************************************************************)
(* Claims on the run of the enhanced algorithm, continued.                 *)
(***************************************************************************)
\* C21: with n > p, when inverting A^T A fails as singular the estimator
\* does not fail: std_errors has p entries all equal to rse, rse and
\* t_value are computed as usual, and the analysis goes on to the
\* statistics.
C21_SingularFallback ==
    pc \in {"statistics", "analysed"} /\ Len(z) > Len(coefficients) =>
        LET n == Len(z)
            p == Len(coefficients)
            ci == confidence_intervals
        IN  /\ error = NoError
            /\ ci.std_errors \in {"sqrt_diag_cov", "uniform_rse"}
            /\ ci.std_errors = "uniform_rse" =>
                  /\ ci.n_std_errors = p
                  /\ ci.rse_sq = <<SumSq(residuals), n - p>>
                  /\ ci.t_value = "t_ppf"
                  /\ pc = "analysed" => statistics.computed

C21_Witness ==
    /\ pc = "analysed"
    /\ Len(z) > Len(coefficients)
    /\ SumSq(residuals) > 0
    /\ confidence_intervals.std_errors = "uniform_rse"
    /\ statistics.computed

(***************************************************************************)
(* Claims on the statistics calculator.                                    *)
(***************************************************************************)
StatZero(s) ==
    /\ s.r2 = <<0, 1>>
    /\ s.r2_adjusted = <<0, 1>>
    /\ s.rmse_sq = <<0, 1>>
    /\ s.mae = <<0, 1>>
    /\ s.aic = "zero"
    /\ s.bic = "zero"
    /\ s.normality_p = "zero"
    /\ s.residual_mean = <<0, 1>>
    /\ s.residual_var = <<0, 1>>

ConstantZ == \A i, j \in 1..Len(z) : z[i] = z[j]

\* C22: with n <= p the statistics calculator returns r2, r2_adjusted,
\* rmse, mae, aic, bic, normality_p, residual_mean and residual_std all 0,
\* whatever the residuals; with n > p it computes them, with r2 = 0 when
\* ss_tot = 0, r2_adjusted = r2 when n = p + 1, and aic = bic = 0 when
\* ss_res = 0, so that no divisor is zero and no logarithm of zero is taken.
C22_StatisticsDegenerate ==
    pc = "statistics_returned" =>
        LET n == Len(z)
            p == NTerms(degree)
            s == statistics
            ss_res == SumSq(residuals)
        IN  /\ n <= p => StatZero(s)
            /\ n > p =>
                  /\ s.r2[2] > 0 /\ s.r2_adjusted[2] > 0 /\ s.rmse_sq[2] > 0
                  /\ s.mae[2] > 0 /\ s.residual_mean[2] > 0
                  /\ s.rmse_sq = <<ss_res, n>>
                  /\ s.mae = <<SumAbs(residuals), n>>
                  /\ ConstantZ => s.r2 = <<0, 1>>
                  /\ ~ConstantZ =>
                        RatEq(s.r2, <<n * SumSq(z) - SumOf(z) * SumOf(z) - n * ss_res,
                                      n * SumSq(z) - SumOf(z) * SumOf(z)>>)
                  /\ n = p + 1 => s.r2_adjusted = s.r2
                  /\ (ss_res = 0) <=> (s.aic = "zero")
                  /\ (ss_res = 0) <=> (s.bic = "zero")

C22_Witness ==
    /\ pc = "statistics_returned"
    /\ Len(z) = NTerms(degree)
    /\ SumSq(residuals) > 0
    /\ StatZero(statistics)

LeavesLoop(kind) ==
    /\ pc = "irls"
    /\ pc' = "robust_return"
    /\ trace'.exit = kind

FourPointPlane ==
    /\ degree = 1
    /\ x = <<0, 1, 0, 1>>
    /\ y = <<0, 0, 1, 1>>
    /\ z = <<1, 2, 3, 4>>

\* C26: for the samples (0,0,1), (1,0,2), (0,1,3), (1,1,4) and degree 1
\* (n = 4, p = 3) the analysis is not turned away for want of data, the
\* coefficients in the column order (1, x, y) are (1, 1, 2), every residual
\* is 0, and the statistics report r2 = 1, rmse = 0 and mae = 0.
C26_FourPointPlane ==
    FourPointPlane =>
        /\ error.kind \notin {"InsufficientPoints", "InsufficientData"}
        /\ FitReturned =>
              /\ coefficients = <<1, 1, 2>>
              /\ residuals = <<0, 0, 0, 0>>
        /\ pc = "analysed" =>
              /\ RatEq(statistics.r2, <<1, 1>>)
              /\ RatEq(statistics.rmse_sq, <<0, 1>>)
              /\ RatEq(statistics.mae, <<0, 1>>)
              /\ statistics.n_observations = 4
              /\ statistics.n_parameters = 3

C26_Witness ==
    /\ FourPointPlane
    /\ pc = "analysed"
    /\ error = NoError
    /\ coefficients = <<1, 1, 2>>
    /\ statistics.r2 = <<20, 20>>

(***************************************************************************)
(* Claims on the cell coordinates.                                         *)
(***************************************************************************)
ProperExtent ==
    /\ grid.xmax >= grid.xmin
    /\ grid.ymax >= grid.ymin
    /\ grid.cell_size > 0

\* the coordinates of every cell of the rows evaluated so far lie in the extent
CellsInsideExtent ==
    \A r \in 1..grid.row : \A c \in 1..grid.cols :
        /\ grid.writes[r][c] >= 1
        /\ grid.xmin <= CellX(grid.xmin, c - 1, grid.cell_size)
        /\ CellX(grid.xmin, c - 1, grid.cell_size) <= grid.xmax
        /\ grid.ymin <= CellY(grid.ymax, r - 1, grid.cell_size)
        /\ CellY(grid.ymax, r - 1, grid.cell_size) <= grid.ymax

\* the step that fixes the extent, when no extent was given
DerivesExtent ==
    /\ pc = "rasters"
    /\ grid.extent.null
    /\ pc' = "grid_row"

\* C29: for every extent with xmax >= xmin, ymax >= ymin and a cell size
\* above 0, every cell coordinate that is evaluated lies inside the extent
\* (xmin <= xmin + col * cellSize <= xmax, ymin <= ymax - row * cellSize
\* <= ymax); and an extent derived from the samples contains every sample.
C29_CellsInsideExtent ==
    /\ []((GridStarted /\ ProperExtent) => CellsInsideExtent)
    /\ [][DerivesExtent =>
             /\ \A i \in 1..Len(x) : grid'.xmin <= x[i] /\ x[i] <= grid'.xmax
             /\ \A i \in 1..Len(y) : grid'.ymin <= y[i] /\ y[i] <= grid'.ymax]_vars

C29_Witness ==
    /\ GridStarted
    /\ ProperExtent
    /\ grid.generator = "enhanced"
    /\ grid.completed
    /\ ~grid.broke
    /\ grid.row = grid.rows
    /\ grid.rows >= 2
    /\ grid.cols >= 2
    /\ (grid.xmax - grid.xmin) % grid.cell_size # 0
    /\ (grid.ymax - grid.ymin) % grid.cell_size # 0

(***************************************************************************)
(* Claims on the sample collection.                                        *)
(***************************************************************************)
Converted == pc \in {"arrays", "residual_points", "completed"}

\* a sample was collected from a feature that has no weight
SomeSampleLacksWeight ==
    \E k \in 1..Len(collected.points) :
        source.features[collected.points[k].feature].weight = "null"

\* C24: after the collection the weight vector is absent, or has one weight
\* per collected sample, the k-th being the weight of the feature the k-th
\* sample came from; when a weight field was asked for and some collected
\* sample lacks a weight, the weights are dropped and the fit is
\* unweighted; the points and the z values always have the same length,
\* and a feature with a null or NaN z adds to neither.
C24_WeightsAligned ==
    algo = "enhanced" =>
        /\ Len(collected.points) = Len(collected.z_values)
        /\ \A k \in 1..Len(collected.points) :
              /\ source.features[collected.points[k].feature].z = "value"
              /\ collected.z_values[k] = FieldZ(collected.points[k].feature)
        /\ Converted =>
              /\ Len(x) = Len(z)
              /\ Len(z) = Len(collected.points)
              /\ \/ w = None
                 \/ /\ Len(w) = Len(z)
                    /\ \A k \in 1..Len(w) :
                          w[k] = FieldWeight(collected.points[k].feature)
              /\ (source.weight_field /\ SomeSampleLacksWeight) =>
                    /\ w = None
                    /\ collected.warned
                    /\ ~UsesWeights(w, z)
              /\ ~source.weight_field => w = None

\* weights kept: a multipart feature, a skipped one, and a single point
C24_Witness ==
    /\ algo = "enhanced"
    /\ pc = "completed"
    /\ source.weight_field
    /\ w # None
    /\ Len(w) = Len(z)
    /\ Len(collected.points) > Len(source.features)
    /\ \E f \in 1..Len(source.features) : SkipsFeature(source.features[f])

(***************************************************************************)
(* Claims on the residual-points layer.                                    *)
(***************************************************************************)
\* C27: in the residual-points output, the residual (and the predicted
\* value z - residual) attached to each output feature is the residual of
\* a sample that was collected from that same input feature, for every
\* input layer: also with features skipped for a null or NaN z, with
\* multipart features, and with a collection cut short by cancellation.
C27_ResidualsOfSameFeature ==
    residual_layer.built =>
        \A k \in 1..Len(residual_layer.features) :
            LET out == residual_layer.features[k]
            IN  /\ out.residual \in 1..Len(collected.points)
                /\ collected.points[out.residual].feature = out.feature
                /\ out.z_state = "value"
                /\ out.z_value = z[out.residual]

(***************************************************************************)
(* Claims on the order of the stages.  A stage is known to have run by     *)
(* what it leaves behind.                                                  *)
(***************************************************************************)
DesignBuilt == design # NoDesign

FitRun == trace.solver # <<>>

CVRun == cv_state.called

ConfidenceRun == confidence_intervals # NoConfidence

StatisticsRun == statistics.computed

RastersRun == GridStarted

RastersWritten == GridStarted /\ grid.saved # <<>>

NoRepeat(sq) == \A i, j \in 1..Len(sq) : sq[i] = sq[j] => i = j

StagesInOrder ==
    /\ FitRun => DesignBuilt
    /\ CVRun => FitRun /\ z_pred # <<>>
    /\ ConfidenceRun =>
          /\ FitRun
          /\ coefficients # <<>>
          /\ RunsCrossValidation => CVRun /\ cv_results = cv_state.result
    /\ StatisticsRun => ConfidenceRun
    /\ RastersRun => StatisticsRun
    /\ residual_layer.built => RastersWritten
    /\ residual_layer.registered => residual_layer.built

NothingAfterFailure ==
    error # NoError =>
        /\ pc = "failed"
        /\ ~CVRun
        /\ ~ConfidenceRun
        /\ ~StatisticsRun
        /\ ~RastersRun
        /\ ~residual_layer.built
        /\ ~residual_layer.registered
        /\ error.kind = "InsufficientPoints" =>
              ~DesignBuilt /\ ~FitRun /\ trace.checks = <<"points">>
        /\ error.kind = "InsufficientData" =>
              ~FitRun /\ trace.checks = <<"points", "terms">>
        /\ NoRepeat(trace.checks)
        /\ NoRepeat(trace.solver)

\* C25: in every run the stages happen in the order design matrix, fit,
\* cross-validation where it runs, confidence estimation, statistics, and
\* only then the rasters; when a run ends in an insufficient-data or a
\* degenerate-fit error, no later stage of the run executes, no raster is
\* written, no result layer is registered, and the failing step is not
\* run again.
C25_StageOrder ==
    /\ [](StagesInOrder /\ NothingAfterFailure)
    /\ [](pc = "failed" => error # NoError)
    /\ [][pc = "failed" => pc' = "failed"]_vars

C25_Witness ==
    /\ pc = "completed"
    /\ CVRun
    /\ cv_results.present
    /\ robust_regression
    /\ RastersWritten
    /\ ~grid.broke
    /\ residual_layer.registered
    /\ Len(residual_layer.features) = Len(z)

(***************************************************************************)
(* Claims on the cross-validation as the analysis runs it.                 *)
(***************************************************************************)
\* C30: through trend_surface_analysis a fold is fitted only if
\* n - floor(n / 5) >= n_terms(degree); when n = n_terms(degree) every fold
\* is skipped and the cross-validation result is none; so the statistics
\* calculator never gets a present cross-validation result together with
\* n <= p.
C30_CVNeverDegenerate ==
    LET n == Len(z)
        p == NTerms(degree)
    IN  /\ \A i \in ScoredFolds \cup FailedFolds : n - (n \div k_folds) >= p
        /\ (CVRun /\ n = p) =>
              /\ \A i \in FoldsReached : cv_state.folds[i].outcome = "skipped"
              /\ cv_state.mse_scores = <<>>
              /\ cv_results = NoCV
              /\ cv_state.result = NoCV
        /\ cv_results.present => n > p
        /\ (statistics.computed /\ cv_results.present) =>
              /\ statistics.has_cv
              /\ statistics.cv_folds = cv_results.folds_completed

C30_Witness ==
    /\ pc = "analysed"
    /\ Len(z) = NTerms(degree)
    /\ CVRun
    /\ ~canceled
    /\ Len(cv_state.folds) = k_folds
    /\ \A i \in 1..k_folds : cv_state.folds[i].outcome = "skipped"
    /\ cv_results = NoCV
    /\ statistics.computed

====
